---- MODULE Spec2Model ----
(***************************************************************************)
(* BlueSphere temporal pipeline: the temperature store (daily, monthly,    *)
(* yearly aggregates, climate baselines, anomalies, marine heatwaves),     *)
(* the operations of TemporalDataManager and TemporalProcessor that write  *)
(* it, the ingestion upserts, and the temporal query endpoints.            *)
(*                                                                         *)
(* Conventions of the model                                                *)
(*  - A table is a set of rows; a row is a record of the columns of        *)
(*    backend/models.py without the surrogate id (gen_random_uuid).        *)
(*  - A float column holds an exact rational <<num, den>> in lowest terms  *)
(*    with den > 0; SQL NULL is <<0, 0>>.                                  *)
(*  - A std_sst_c column holds the SQUARE of the standard deviation (the   *)
(*    variance), which determines the non-negative deviation exactly.      *)
(*  - A date is <<year, month, day>>, ordered lexicographically.           *)
(*  - A grid row keeps date, lat, lon, sst_c and dataset; its resolution   *)
(*    label, quality_flag (always 0) and created_at are left out.          *)
(*  - marine_heatwave has no unique constraint, so its rows keep the id;   *)
(*    the three intensity columns, which no query filters on, are left     *)
(*    out.                                                                 *)
(***************************************************************************)
EXTENDS Integers, Sequences, FiniteSets, TLC

VARIABLES
    grid,       \* temporal_temperature_grid
    daily,      \* temporal_temperature_daily
    monthly,    \* temporal_temperature_monthly
    yearly,     \* temporal_temperature_yearly
    baseline,   \* climate_baseline
    anomaly,    \* temperature_anomaly
    heatwaves,  \* marine_heatwave
    jobs,       \* job_run rows recorded by record_job_status, in order
    last,       \* the operation that ran last: its name, arguments and result
    steps,      \* number of operations run so far
    cache,      \* the redis cache of the temporal API: enabled, and its entries
    request,    \* the call in flight: its name and arguments, or NoRequest
    response    \* what the last call returned or raised, or NoResponse

api == <<cache, request, response>>

vars == <<grid, daily, monthly, yearly, baseline, anomaly, heatwaves, jobs,
          last, steps, cache, request, response>>

----------------------------------------------------------------------------
(* Bounds of the model *)

MaxSteps == 4
MaxRuns == 5
MaxRecomputes == 4

Years == {2021, 2022, 2023}
Months == {1, 12}
Days == {1, 31}
\* Grid points of an ingested file, in half degrees: one point at latitude 1.0
GridLat2 == {2}
GridLon2 == {0}
GridPoints == GridLat2 \X GridLon2
\* Raw sst values of a file; -999 stands for a fill value
RawTemps == {10, 12, -999}
ValidTemps == {10, 12}
Datasets == {"ERSST", "OISST"}
Resolutions == {1, 2}
\* Baseline periods "YYYY-YYYY", held as <<start, end>>
Periods == {<<2021, 2022>>, <<2021, 2023>>}

----------------------------------------------------------------------------
(* Exact rational arithmetic for the float columns *)

NULL == <<0, 0>>
IsNull(x) == x[2] = 0

Abs(n) == IF n < 0 THEN -n ELSE n

RECURSIVE GCD(_, _)
GCD(a, b) == IF b = 0 THEN a ELSE GCD(b, a % b)

Rat(n, d) ==
    LET g == GCD(Abs(n), Abs(d))
        s == IF d < 0 THEN -1 ELSE 1
    IN  <<(s * n) \div g, (s * d) \div g>>

RInt(n) == <<n, 1>>
RAdd(x, y) == Rat(x[1] * y[2] + y[1] * x[2], x[2] * y[2])
RSub(x, y) == Rat(x[1] * y[2] - y[1] * x[2], x[2] * y[2])
RMul(x, y) == Rat(x[1] * y[1], x[2] * y[2])
RDivInt(x, n) == Rat(x[1], x[2] * n)
RLe(x, y) == x[1] * y[2] <= y[1] * x[2]

----------------------------------------------------------------------------
(* Dates *)

DateLe(a, b) ==
    \/ a[1] < b[1]
    \/ a[1] = b[1] /\ a[2] < b[2]
    \/ a[1] = b[1] /\ a[2] = b[2] /\ a[3] <= b[3]

IsLeap(y) == (y % 4 = 0 /\ y % 100 # 0) \/ y % 400 = 0

DaysInMonth(y, m) ==
    IF m = 2 THEN (IF IsLeap(y) THEN 29 ELSE 28)
    ELSE IF m \in {4, 6, 9, 11} THEN 30 ELSE 31

----------------------------------------------------------------------------
(* Spatial binning and SQL aggregates *)

\* ROUND(x / r) on double precision: nearest integer, ties to the even one.
SqlRound(n, d) ==
    LET q == n \div d
        rem == n - q * d
    IN  IF 2 * rem < d THEN q
        ELSE IF 2 * rem > d THEN q + 1
        ELSE IF q % 2 = 0 THEN q ELSE q + 1

\* ROUND(lat_bin / :resolution) * :resolution, for a resolution other than 0;
\* x / r with r < 0 is (-x) / (-r)
Bin(x, res) ==
    IF res > 0 THEN SqlRound(x, res) * res ELSE SqlRound(-x, -res) * res

\* lat_bin / :resolution with :resolution = 0 raises "division by zero" for
\* every row the WHERE clause selects; with no row selected nothing divides
DivisionByZero(src, res) == res = 0 /\ src # {}

\* Python round(float(lat)): nearest integer, ties to the even one.
PyRound(x) == SqlRound(x, 1)

RECURSIVE SumAvg(_)
SumAvg(S) ==
    IF S = {} THEN RInt(0)
    ELSE LET r == CHOOSE x \in S : TRUE
         IN  RAdd(r.avg_sst_c, SumAvg(S \ {r}))

RECURSIVE SumSqAvg(_)
SumSqAvg(S) ==
    IF S = {} THEN RInt(0)
    ELSE LET r == CHOOSE x \in S : TRUE
         IN  RAdd(RMul(r.avg_sst_c, r.avg_sst_c), SumSqAvg(S \ {r}))

RECURSIVE SumCount(_)
SumCount(S) ==
    IF S = {} THEN 0
    ELSE LET r == CHOOSE x \in S : TRUE
         IN  r.count + SumCount(S \ {r})

RECURSIVE SumAvgTimesCount(_)
SumAvgTimesCount(S) ==
    IF S = {} THEN RInt(0)
    ELSE LET r == CHOOSE x \in S : TRUE
         IN  RAdd(RMul(r.avg_sst_c, RInt(r.count)), SumAvgTimesCount(S \ {r}))

\* Mutant of SqlAvg: the mean of the observations, each row weighted by
\* its count
SqlAvgWeighted(S) == RDivInt(SumAvgTimesCount(S), SumCount(S))

\* AVG(avg_sst_c) over the rows of a group
SqlAvg(S) == RDivInt(SumAvg(S), Cardinality(S))

\* MIN(min_sst_c), MAX(max_sst_c): NULL inputs are ignored
SqlMin(S) ==
    LET V == {r.min_sst_c : r \in {x \in S : ~IsNull(x.min_sst_c)}}
    IN  IF V = {} THEN NULL ELSE CHOOSE v \in V : \A w \in V : RLe(v, w)

SqlMax(S) ==
    LET V == {r.max_sst_c : r \in {x \in S : ~IsNull(x.max_sst_c)}}
    IN  IF V = {} THEN NULL ELSE CHOOSE v \in V : \A w \in V : RLe(w, v)

\* STDDEV(avg_sst_c) is the sample deviation: NULL for one row, else
\* (sum(x^2) - sum(x)^2 / n) / (n - 1), kept squared.
SqlStddev(S) ==
    LET n == Cardinality(S)
        s == SumAvg(S)
    IN  IF n < 2 THEN NULL
        ELSE RDivInt(RSub(SumSqAvg(S), RDivInt(RMul(s, s), n)), n - 1)

\* The aggregate columns every rollup SELECT computes for one group
GroupStats(S) ==
    [avg_sst_c |-> SqlAvg(S), min_sst_c |-> SqlMin(S), max_sst_c |-> SqlMax(S),
     std_sst_c |-> SqlStddev(S), count |-> SumCount(S)]

----------------------------------------------------------------------------
(* Unique keys and INSERT ... ON CONFLICT (key) DO UPDATE SET ... *)

GridKey(r) == <<r.date, r.lat, r.lon, r.dataset>>

\* INSERT INTO temporal_temperature_grid ... ON CONFLICT
\* (uq_temp_grid_date_location) DO UPDATE SET sst_c, quality_flag, created_at
UpsertGrid(T, rows) ==
    {IF \E n \in rows : GridKey(n) = GridKey(r)
     THEN [r EXCEPT !.sst_c = (CHOOSE n \in rows : GridKey(n) = GridKey(r)).sst_c]
     ELSE r : r \in T}
    \cup {n \in rows : \A r \in T : GridKey(r) # GridKey(n)}

DailyKey(r) == <<r.date, r.lat_bin, r.lon_bin, r.dataset>>
MonthlyKey(r) == <<r.year, r.month, r.lat_bin, r.lon_bin, r.dataset>>
\* Mutant of YearlyKey: the unique constraint leaves the year out
YearlyKeyWithoutYear(r) == <<r.lat_bin, r.lon_bin, r.dataset>>
YearlyKey(r) == <<r.year, r.lat_bin, r.lon_bin, r.dataset>>
BaselineKey(r) ==
    <<r.lat_bin, r.lon_bin, r.month, r.baseline_period_start,
      r.baseline_period_end, r.dataset>>
AnomalyKey(r) == <<r.date, r.lat_bin, r.lon_bin, r.baseline_period, r.dataset>>

\* Mutant of SetAggregate: the update adds the new count to the stored one
SetAggregateAccumulating(old, new) ==
    [old EXCEPT !.avg_sst_c = new.avg_sst_c, !.min_sst_c = new.min_sst_c,
                !.max_sst_c = new.max_sst_c, !.std_sst_c = new.std_sst_c,
                !.count = old.count + new.count]

\* DO UPDATE SET avg_sst_c, min_sst_c, max_sst_c, std_sst_c, count = EXCLUDED.*
SetAggregate(old, new) ==
    [old EXCEPT !.avg_sst_c = new.avg_sst_c, !.min_sst_c = new.min_sst_c,
                !.max_sst_c = new.max_sst_c, !.std_sst_c = new.std_sst_c,
                !.count = new.count]

\* DO UPDATE SET climatology_sst_c, std_sst_c = EXCLUDED.*
SetBaseline(old, new) ==
    [old EXCEPT !.climatology_sst_c = new.climatology_sst_c,
                !.std_sst_c = new.std_sst_c]

\* DO UPDATE SET anomaly_c = EXCLUDED.anomaly_c
SetAnomaly(old, new) == [old EXCEPT !.anomaly_c = new.anomaly_c]

UpsertDaily(T, rows) ==
    {IF \E n \in rows : DailyKey(n) = DailyKey(r)
        THEN SetAggregate(r, CHOOSE n \in rows : DailyKey(n) = DailyKey(r))
        ELSE r : r \in T}
    \cup {n \in rows : \A r \in T : DailyKey(r) # DailyKey(n)}

\* Mutant of UpsertMonthly: a plain INSERT without the ON CONFLICT clause
InsertMonthly(T, rows) == T \cup rows

UpsertMonthly(T, rows) ==
    {IF \E n \in rows : MonthlyKey(n) = MonthlyKey(r)
        THEN SetAggregate(r, CHOOSE n \in rows : MonthlyKey(n) = MonthlyKey(r))
        ELSE r : r \in T}
    \cup {n \in rows : \A r \in T : MonthlyKey(r) # MonthlyKey(n)}

UpsertYearly(T, rows) ==
    {IF \E n \in rows : YearlyKey(n) = YearlyKey(r)
        THEN SetAggregate(r, CHOOSE n \in rows : YearlyKey(n) = YearlyKey(r))
        ELSE r : r \in T}
    \cup {n \in rows : \A r \in T : YearlyKey(r) # YearlyKey(n)}

UpsertBaseline(T, rows) ==
    {IF \E n \in rows : BaselineKey(n) = BaselineKey(r)
        THEN SetBaseline(r, CHOOSE n \in rows : BaselineKey(n) = BaselineKey(r))
        ELSE r : r \in T}
    \cup {n \in rows : \A r \in T : BaselineKey(r) # BaselineKey(n)}

UpsertAnomaly(T, rows) ==
    {IF \E n \in rows : AnomalyKey(n) = AnomalyKey(r)
        THEN SetAnomaly(r, CHOOSE n \in rows : AnomalyKey(n) = AnomalyKey(r))
        ELSE r : r \in T}
    \cup {n \in rows : \A r \in T : AnomalyKey(r) # AnomalyKey(n)}

----------------------------------------------------------------------------
(* Ingestion: _process_ersst_dataset / process_oisst_dataset *)

\* Mutant of ValidSst: fill values are kept as temperatures
ValidSstAnything(v) == TRUE

\* np.where(sst < -10, nan, sst); np.where(sst > 50, nan, sst)
ValidSst(v) == ~(v < -10) /\ ~(v > 50)

\* lat_bin = round(float(lat)), lon_bin = round(float(lon)) of a grid point
PointBin(p) == <<SqlRound(p[1], 2), SqlRound(p[2], 2)>>

RECURSIVE SumSst(_, _)
SumSst(P, file) ==
    IF P = {} THEN 0
    ELSE LET p == CHOOSE x \in P : TRUE
         IN  file[p] + SumSst(P \ {p}, file)

RECURSIVE SumSqSst(_, _)
SumSqSst(P, file) ==
    IF P = {} THEN 0
    ELSE LET p == CHOOSE x \in P : TRUE
         IN  file[p] * file[p] + SumSqSst(P \ {p}, file)

\* np.mean, np.min, np.max, np.std (population; 0.0 for one value), len
\* of the valid values of the grid points P of one bin.
BinStats(P, file) ==
    LET n == Cardinality(P)
        s == SumSst(P, file)
        V == {file[p] : p \in P}
    IN  [avg_sst_c |-> Rat(s, n),
         min_sst_c |-> RInt(CHOOSE v \in V : \A w \in V : v <= w),
         max_sst_c |-> RInt(CHOOSE v \in V : \A w \in V : w <= v),
         std_sst_c |-> IF n > 1 THEN Rat(n * SumSqSst(P, file) - s * s, n * n)
                       ELSE RInt(0),
         count |-> n]

\* The bins of a file that hold at least one valid value
FileBinsOf(Pts, file) == {PointBin(p) : p \in {q \in Pts : ValidSst(file[q])}}

FileBins(file) == FileBinsOf(GridPoints, file)

BinPointsOf(Pts, file, b) == {p \in Pts : ValidSst(file[p]) /\ PointBin(p) = b}

BinPoints(file, b) == BinPointsOf(GridPoints, file, b)

\* grid_records of _process_ersst_dataset / process_oisst_dataset: one row
\* per grid point with a valid value, at the point's own coordinates
GridRecords(date, file, dataset) ==
    {[date |-> date, lat |-> Rat(p[1], 2), lon |-> Rat(p[2], 2),
      sst_c |-> RInt(file[p]), dataset |-> dataset] :
        p \in {q \in GridPoints : ValidSst(file[q])}}

\* monthly_records of _process_ersst_dataset
ErsstMonthlyRecords(year, month, file) ==
    {[year |-> year, month |-> month, lat_bin |-> b[1], lon_bin |-> b[2],
      avg_sst_c |-> BinStats(BinPoints(file, b), file).avg_sst_c,
      min_sst_c |-> BinStats(BinPoints(file, b), file).min_sst_c,
      max_sst_c |-> BinStats(BinPoints(file, b), file).max_sst_c,
      std_sst_c |-> BinStats(BinPoints(file, b), file).std_sst_c,
      count |-> BinStats(BinPoints(file, b), file).count,
      dataset |-> "ERSST"] : b \in FileBins(file)}

\* daily_records of process_oisst_dataset for a file over the points Pts
OisstDailyRecordsOf(Pts, date, file) ==
    {[date |-> date, lat_bin |-> b[1], lon_bin |-> b[2],
      avg_sst_c |-> BinStats(BinPointsOf(Pts, file, b), file).avg_sst_c,
      min_sst_c |-> BinStats(BinPointsOf(Pts, file, b), file).min_sst_c,
      max_sst_c |-> BinStats(BinPointsOf(Pts, file, b), file).max_sst_c,
      std_sst_c |-> BinStats(BinPointsOf(Pts, file, b), file).std_sst_c,
      count |-> BinStats(BinPointsOf(Pts, file, b), file).count,
      dataset |-> "OISST"] : b \in FileBinsOf(Pts, file)}

OisstDailyRecords(date, file) == OisstDailyRecordsOf(GridPoints, date, file)

----------------------------------------------------------------------------
(* The SELECT of each TemporalDataManager rollup *)

MonthStart(year, month) == <<year, month, 1>>

\* date(year, month + 1, 1) - timedelta(days=1), or 31 December
MonthEnd(year, month) ==
    IF month = 12 THEN <<year, 12, 31>> ELSE <<year, month, DaysInMonth(year, month)>>

\* FROM temporal_temperature_daily WHERE date BETWEEN ... AND dataset AND avg NOT NULL
DailySourceOf(D, year, month, dataset) ==
    {r \in D : /\ DateLe(MonthStart(year, month), r.date)
                   /\ DateLe(r.date, MonthEnd(year, month))
                   /\ r.dataset = dataset
                   /\ ~IsNull(r.avg_sst_c)}

DailySource(year, month, dataset) == DailySourceOf(daily, year, month, dataset)

SpaceGroup(r, res) == <<Bin(r.lat_bin, res), Bin(r.lon_bin, res)>>

\* The SELECT of aggregate_daily_to_monthly over the daily table D
MonthlyRollupOf(D, year, month, dataset, res) ==
    LET src == DailySourceOf(D, year, month, dataset)
        G(g) == {r \in src : SpaceGroup(r, res) = g}
    IN  {[year |-> year, month |-> month, lat_bin |-> g[1], lon_bin |-> g[2],
          avg_sst_c |-> GroupStats(G(g)).avg_sst_c,
          min_sst_c |-> GroupStats(G(g)).min_sst_c,
          max_sst_c |-> GroupStats(G(g)).max_sst_c,
          std_sst_c |-> GroupStats(G(g)).std_sst_c,
          count |-> GroupStats(G(g)).count,
          dataset |-> dataset] : g \in {SpaceGroup(r, res) : r \in src}}

MonthlyRollup(year, month, dataset, res) ==
    MonthlyRollupOf(daily, year, month, dataset, res)

\* FROM temporal_temperature_monthly WHERE year AND dataset AND avg NOT NULL
MonthlySourceOf(M, year, dataset) ==
    {r \in M : r.year = year /\ r.dataset = dataset /\ ~IsNull(r.avg_sst_c)}

MonthlySource(year, dataset) == MonthlySourceOf(monthly, year, dataset)

\* The SELECT of aggregate_monthly_to_yearly over the monthly table M
YearlyRollupOf(M, year, dataset, res) ==
    LET src == MonthlySourceOf(M, year, dataset)
        G(g) == {r \in src : SpaceGroup(r, res) = g}
    IN  {[year |-> year, lat_bin |-> g[1], lon_bin |-> g[2],
          avg_sst_c |-> GroupStats(G(g)).avg_sst_c,
          min_sst_c |-> GroupStats(G(g)).min_sst_c,
          max_sst_c |-> GroupStats(G(g)).max_sst_c,
          std_sst_c |-> GroupStats(G(g)).std_sst_c,
          count |-> GroupStats(G(g)).count,
          dataset |-> dataset] : g \in {SpaceGroup(r, res) : r \in src}}

YearlyRollup(year, dataset, res) == YearlyRollupOf(monthly, year, dataset, res)

\* min_years = int((end_year - start_year + 1) * 0.7); int() truncates to zero
MinYears(start_year, end_year) ==
    LET n == end_year - start_year + 1
    IN  IF n >= 0 THEN (n * 7) \div 10 ELSE -(((-n) * 7) \div 10)

\* FROM temporal_temperature_monthly WHERE year BETWEEN ... AND dataset AND avg NOT NULL
\* Mutant of BaselineSourceOf: the end year is left out of the period
BaselineSourceBeforeEnd(M, start_year, end_year, dataset) ==
    {r \in M : /\ r.year >= start_year
               /\ r.year < end_year
               /\ r.dataset = dataset
               /\ ~IsNull(r.avg_sst_c)}

BaselineSourceOf(M, start_year, end_year, dataset) ==
    {r \in M : /\ r.year >= start_year
               /\ r.year <= end_year
               /\ r.dataset = dataset
               /\ ~IsNull(r.avg_sst_c)}

BaselineSource(start_year, end_year, dataset) ==
    BaselineSourceOf(monthly, start_year, end_year, dataset)

BaselineGroup(r, res) == <<Bin(r.lat_bin, res), Bin(r.lon_bin, res), r.month>>

\* GROUP BY bin, month HAVING COUNT(*) >= :min_years
BaselineSelectOf(M, start_year, end_year, dataset, res) ==
    LET src == BaselineSourceOf(M, start_year, end_year, dataset)
        G(g) == {r \in src : BaselineGroup(r, res) = g}
        kept == {g \in {BaselineGroup(r, res) : r \in src} :
                    Cardinality(G(g)) >= MinYears(start_year, end_year)}
    IN  {[lat_bin |-> g[1], lon_bin |-> g[2], month |-> g[3],
          baseline_period_start |-> start_year, baseline_period_end |-> end_year,
          climatology_sst_c |-> SqlAvg(G(g)), std_sst_c |-> SqlStddev(G(g)),
          dataset |-> dataset] : g \in kept}

BaselineSelect(start_year, end_year, dataset, res) ==
    BaselineSelectOf(monthly, start_year, end_year, dataset, res)

\* climate_baseline.climatology_sst_c and std_sst_c are NOT NULL columns: a
\* SELECT row with a NULL in one of them fails the whole INSERT statement.
BaselineNotNullViolation(rows) ==
    \E n \in rows : IsNull(n.climatology_sst_c) \/ IsNull(n.std_sst_c)

\* start_year, end_year = map(int, baseline_period.split('-'))
PeriodStart(period) == period[1]
PeriodEnd(period) == period[2]

\* Mutant of JoinMatches: the join forgets the baseline period
JoinIgnoringPeriod(m, b, period) ==
    /\ m.lat_bin = b.lat_bin
    /\ m.lon_bin = b.lon_bin
    /\ m.month = b.month
    /\ b.dataset = m.dataset

\* JOIN climate_baseline b ON (m.lat_bin = b.lat_bin AND ... AND b.dataset = m.dataset)
JoinMatches(m, b, period) ==
    /\ m.lat_bin = b.lat_bin
    /\ m.lon_bin = b.lon_bin
    /\ m.month = b.month
    /\ b.baseline_period_start = PeriodStart(period)
    /\ b.baseline_period_end = PeriodEnd(period)
    /\ b.dataset = m.dataset

\* Mutant of AnomalyValue: the subtraction the wrong way round
AnomalyValueSwapped(m, b) == RSub(b.climatology_sst_c, m.avg_sst_c)

\* m.avg_sst_c - b.climatology_sst_c as anomaly_c
AnomalyValue(m, b) == RSub(m.avg_sst_c, b.climatology_sst_c)

\* FROM monthly m JOIN climate_baseline b ON (...) WHERE m.year, m.dataset, NOT NULL
AnomalySelectOf(M, B, target_year, period, dataset) ==
    LET pairs == {mb \in M \X B :
                    /\ JoinMatches(mb[1], mb[2], period)
                    /\ mb[1].year = target_year
                    /\ mb[1].dataset = dataset
                    /\ ~IsNull(mb[1].avg_sst_c)
                    /\ ~IsNull(mb[2].climatology_sst_c)}
    IN  {[date |-> <<mb[1].year, mb[1].month, 1>>,
          lat_bin |-> mb[1].lat_bin, lon_bin |-> mb[1].lon_bin,
          anomaly_c |-> AnomalyValue(mb[1], mb[2]),
          baseline_period |-> period,
          dataset |-> mb[1].dataset] : mb \in pairs}

\* Mutant of AnomalySelect: the join forgets the calendar month
AnomalySelectAnyMonth(target_year, period, dataset) ==
    LET pairs == {mb \in monthly \X baseline :
                    /\ mb[1].lat_bin = mb[2].lat_bin
                    /\ mb[1].lon_bin = mb[2].lon_bin
                    /\ mb[2].baseline_period_start = PeriodStart(period)
                    /\ mb[2].baseline_period_end = PeriodEnd(period)
                    /\ mb[2].dataset = mb[1].dataset
                    /\ mb[1].year = target_year
                    /\ mb[1].dataset = dataset}
    IN  {[date |-> <<mb[1].year, mb[1].month, 1>>,
          lat_bin |-> mb[1].lat_bin, lon_bin |-> mb[1].lon_bin,
          anomaly_c |-> RSub(mb[1].avg_sst_c, mb[2].climatology_sst_c),
          baseline_period |-> period,
          dataset |-> mb[1].dataset] : mb \in pairs}

AnomalySelect(target_year, period, dataset) ==
    AnomalySelectOf(monthly, baseline, target_year, period, dataset)

----------------------------------------------------------------------------
(* Operations on the store *)

NoRequest == [op |-> "none", args |-> <<>>]
NoResponse == [status |-> "none"]

Init ==
    /\ grid = {}
    /\ daily = {}
    /\ monthly = {}
    /\ yearly = {}
    /\ baseline = {}
    /\ anomaly = {}
    /\ heatwaves = {}
    /\ jobs = <<>>
    /\ last = [op |-> "none", args |-> <<>>, written |-> {}, updated |-> {},
               error |-> FALSE, again |-> FALSE]
    /\ steps = 0
    /\ cache = [enabled |-> FALSE, entries |-> {}]
    /\ request = NoRequest
    /\ response = NoResponse

\* What the model remembers of the operation that ran last: its name and
\* arguments, the keys it wrote, the written keys that already existed (the
\* rows ON CONFLICT updated), whether it raised, and whether it repeats the
\* operation that ran just before it.
Ran(op, args, keys, existing, error) ==
    [op |-> op, args |-> args,
     written |-> IF error THEN {} ELSE keys,
     updated |-> IF error THEN {} ELSE keys \cap existing,
     error |-> error,
     again |-> (last.op = op /\ last.args = args)]

\* ERSSTIngester.ingest_processed_data: upsert the file's monthly aggregates, commit
IngestErsst(year, month, file) ==
    LET rows == ErsstMonthlyRecords(year, month, file)
    IN  /\ monthly' = UpsertMonthly(monthly, rows)
        /\ last' = Ran("ingest_ersst", <<year, month>>,
                    {MonthlyKey(n) : n \in rows}, {MonthlyKey(r) : r \in monthly}, FALSE)
        /\ steps' = steps + 1
        /\ grid' = UpsertGrid(grid, GridRecords(<<year, month, 1>>, file, "ERSST"))
        /\ UNCHANGED <<daily, yearly, baseline, anomaly, heatwaves, jobs, api>>

\* OISSTIngester.ingest_processed_data: upsert the day's daily aggregates, commit
IngestOisst(date, file, store_grid) ==
    LET rows == OisstDailyRecords(date, file)
    IN  /\ daily' = UpsertDaily(daily, rows)
        /\ grid' = IF store_grid
                   THEN UpsertGrid(grid, GridRecords(date, file, "OISST"))
                   ELSE grid
        /\ last' = Ran("ingest_oisst", <<date>>,
                    {DailyKey(n) : n \in rows}, {DailyKey(r) : r \in daily}, FALSE)
        /\ steps' = steps + 1
        /\ UNCHANGED <<monthly, yearly, baseline, anomaly, heatwaves, jobs, api>>

\* TemporalDataManager.aggregate_daily_to_monthly
AggregateDailyToMonthly(year, month, dataset, res) ==
    LET failed == DivisionByZero(DailySource(year, month, dataset), res)
        rows == IF failed THEN {} ELSE MonthlyRollup(year, month, dataset, res)
    IN  /\ monthly' = UpsertMonthly(monthly, rows)
        /\ last' = Ran("aggregate_daily_to_monthly", <<year, month, dataset, res>>,
                    {MonthlyKey(n) : n \in rows}, {MonthlyKey(r) : r \in monthly}, failed)
        /\ steps' = steps + 1
        /\ UNCHANGED <<grid, daily, yearly, baseline, anomaly, heatwaves, jobs, api>>

\* Mutant of AggregateMonthlyToYearly: the rollup also deletes the monthly
\* rows it has read
AggregateMonthlyToYearlyMoving(year, dataset, res) ==
    LET failed == DivisionByZero(MonthlySource(year, dataset), res)
        rows == IF failed THEN {} ELSE YearlyRollup(year, dataset, res)
    IN  /\ yearly' = UpsertYearly(yearly, rows)
        /\ monthly' = monthly \ MonthlySource(year, dataset)
        /\ last' = Ran("aggregate_monthly_to_yearly", <<year, dataset, res>>,
                    {YearlyKey(n) : n \in rows}, {YearlyKey(r) : r \in yearly}, failed)
        /\ steps' = steps + 1
        /\ UNCHANGED <<grid, daily, baseline, anomaly, heatwaves, jobs, api>>

\* TemporalDataManager.aggregate_monthly_to_yearly
AggregateMonthlyToYearly(year, dataset, res) ==
    LET failed == DivisionByZero(MonthlySource(year, dataset), res)
        rows == IF failed THEN {} ELSE YearlyRollup(year, dataset, res)
    IN  /\ yearly' = UpsertYearly(yearly, rows)
        /\ last' = Ran("aggregate_monthly_to_yearly", <<year, dataset, res>>,
                    {YearlyKey(n) : n \in rows}, {YearlyKey(r) : r \in yearly}, failed)
        /\ steps' = steps + 1
        /\ UNCHANGED <<grid, daily, monthly, baseline, anomaly, heatwaves, jobs, api>>

\* TemporalDataManager.calculate_climate_baseline
CalculateClimateBaseline(start_year, end_year, dataset, res) ==
    LET zero == DivisionByZero(BaselineSource(start_year, end_year, dataset), res)
        rows == IF zero THEN {} ELSE BaselineSelect(start_year, end_year, dataset, res)
        failed == zero \/ BaselineNotNullViolation(rows)
    IN  /\ baseline' = IF failed THEN baseline ELSE UpsertBaseline(baseline, rows)
        /\ last' = Ran("calculate_climate_baseline", <<start_year, end_year, dataset, res>>,
                    {BaselineKey(n) : n \in rows}, {BaselineKey(r) : r \in baseline}, failed)
        /\ steps' = steps + 1
        /\ UNCHANGED <<grid, daily, monthly, yearly, anomaly, heatwaves, jobs, api>>

\* TemporalDataManager.calculate_temperature_anomalies
CalculateTemperatureAnomalies(target_year, period, dataset) ==
    LET rows == AnomalySelect(target_year, period, dataset)
    IN  /\ anomaly' = UpsertAnomaly(anomaly, rows)
        /\ last' = Ran("calculate_temperature_anomalies", <<target_year, period, dataset>>,
                    {AnomalyKey(n) : n \in rows}, {AnomalyKey(r) : r \in anomaly}, FALSE)
        /\ steps' = steps + 1
        /\ UNCHANGED <<grid, daily, monthly, yearly, baseline, heatwaves, jobs, api>>

\* The whole pipeline, over the two most recent years and December
RecentYears == {2022, 2023}
RecentPeriods == {<<2022, 2023>>}

Next ==
    \/ /\ steps < MaxSteps
       /\ \E y \in RecentYears, f \in [GridPoints -> RawTemps] :
             IngestErsst(y, 12, f)
    \/ /\ steps < MaxSteps
       /\ \E y \in RecentYears, d \in Days, f \in [GridPoints -> RawTemps],
             sg \in BOOLEAN :
             IngestOisst(<<y, 12, d>>, f, sg)
    \/ /\ steps < MaxSteps
       /\ \E y \in RecentYears, ds \in Datasets :
             AggregateDailyToMonthly(y, 12, ds, 1)
    \/ /\ steps < MaxSteps
       /\ \E y \in RecentYears, ds \in Datasets, res \in Resolutions :
             AggregateMonthlyToYearly(y, ds, res)
    \/ /\ steps < MaxSteps
       /\ \E p \in RecentPeriods, ds \in Datasets, res \in Resolutions :
             CalculateClimateBaseline(p[1], p[2], ds, res)
    \/ /\ steps < MaxSteps
       /\ \E y \in RecentYears, p \in RecentPeriods, ds \in Datasets :
             CalculateTemperatureAnomalies(y, p, ds)

Spec == Init /\ [][Next]_vars

\* The pipeline run again over a store that a backfill has filled: ERSST
\* December files of 2022 and 2023, OISST files of 1 and 31 December 2023
File(v) == [p \in GridPoints |-> v]

SeedMonthly ==
    UpsertMonthly(UpsertMonthly({}, ErsstMonthlyRecords(2022, 12, File(10))),
                  ErsstMonthlyRecords(2023, 12, File(12)))

SeedDaily ==
    UpsertDaily(UpsertDaily({}, OisstDailyRecords(<<2023, 12, 1>>, File(10))),
                OisstDailyRecords(<<2023, 12, 31>>, File(12)))

SeedGrid ==
    UpsertGrid(UpsertGrid({}, GridRecords(<<2022, 12, 1>>, File(10), "ERSST")),
               GridRecords(<<2023, 12, 1>>, File(12), "ERSST"))

SeedSteps == Cardinality(SeedMonthly) + Cardinality(SeedDaily)

InitSeeded ==
    /\ grid = SeedGrid
    /\ daily = SeedDaily
    /\ monthly = SeedMonthly
    /\ yearly = {}
    /\ baseline = {}
    /\ anomaly = {}
    /\ heatwaves = {}
    /\ jobs = <<>>
    /\ last = [op |-> "ingest_oisst", args |-> <<<<2023, 12, 31>>>>,
               written |-> {DailyKey(r) : r \in OisstDailyRecords(<<2023, 12, 31>>, File(12))},
               updated |-> {}, error |-> FALSE, again |-> FALSE]
    /\ steps = SeedSteps
    /\ cache = [enabled |-> FALSE, entries |-> {}]
    /\ request = NoRequest
    /\ response = NoResponse

MoreRecomputes == steps < SeedSteps + MaxRecomputes

NextSeeded ==
    \/ /\ MoreRecomputes
       /\ \E f \in [GridPoints -> RawTemps] : IngestErsst(2023, 12, f)
    \/ /\ MoreRecomputes
       /\ \E f \in [GridPoints -> RawTemps], sg \in BOOLEAN :
             IngestOisst(<<2023, 12, 31>>, f, sg)
    \/ /\ MoreRecomputes
       /\ \E ds \in Datasets : AggregateDailyToMonthly(2023, 12, ds, 1)
    \/ /\ MoreRecomputes
       /\ \E ds \in Datasets, res \in Resolutions :
             AggregateMonthlyToYearly(2023, ds, res)
    \/ /\ MoreRecomputes
       /\ \E p \in RecentPeriods, ds \in Datasets, res \in Resolutions :
             CalculateClimateBaseline(p[1], p[2], ds, res)
    \/ /\ MoreRecomputes
       /\ \E y \in RecentYears, p \in RecentPeriods, ds \in Datasets :
             CalculateTemperatureAnomalies(y, p, ds)

SpecSeeded == InitSeeded /\ [][NextSeeded]_vars

\* The ERSST branch of the pipeline: monthly ingestion, baseline, anomalies
NextErsst ==
    \/ /\ steps < MaxRuns
       /\ \E y \in Years, m \in Months, f \in [GridPoints -> ValidTemps] :
             IngestErsst(y, m, f)
    \/ /\ steps < MaxRuns
       /\ \E p \in Periods, res \in Resolutions :
             CalculateClimateBaseline(p[1], p[2], "ERSST", res)
    \/ /\ steps < MaxRuns
       /\ \E y \in Years, p \in Periods :
             CalculateTemperatureAnomalies(y, p, "ERSST")

SpecErsst == Init /\ [][NextErsst]_vars

----------------------------------------------------------------------------
(* Claims about the baseline calculator and the anomaly engine *)

\* ceil(0.7 * n) for n >= 0
CoverageFloor(n) == (7 * n + 9) \div 10

\* The distinct years of [start_year, end_year] with a non-null monthly
\* aggregate in the group g = <<lat_bin, lon_bin, month>>
ContributingYears(g, start_year, end_year, dataset, res) ==
    {r.year : r \in {x \in BaselineSource(start_year, end_year, dataset) :
                        BaselineGroup(x, res) = g}}

\* C1: a baseline run that completes emits a record for a (lat_bin, lon_bin,
\* month) group if and only if the group's number of contributing years is at
\* least ceil(0.7 * (end_year - start_year + 1)).
C1_CoverageFloorIsCeil ==
    (last.op = "calculate_climate_baseline" /\ ~last.error) =>
        LET sy == last.args[1]
            ey == last.args[2]
            ds == last.args[3]
            res == last.args[4]
        IN  \A g \in {BaselineGroup(r, res) : r \in BaselineSource(sy, ey, ds)} :
                (<<g[1], g[2], g[3], sy, ey, ds>> \in last.written)
                <=> (Cardinality(ContributingYears(g, sy, ey, ds, res))
                        >= CoverageFloor(ey - sy + 1))

AnomalyRow(k) == CHOOSE a \in anomaly : AnomalyKey(a) = k

\* A monthly aggregate and a baseline record that agree on (lat_bin, lon_bin,
\* month, dataset), the baseline being of the period <<start, end>>
Agree(m, b, period) ==
    /\ m.lat_bin = b.lat_bin /\ m.lon_bin = b.lon_bin
    /\ m.month = b.month /\ m.dataset = b.dataset
    /\ b.baseline_period_start = period[1] /\ b.baseline_period_end = period[2]

\* The monthly aggregate an anomaly record stands for
MonthlyOf(a, m) ==
    /\ a.date = <<m.year, m.month, 1>>
    /\ a.lat_bin = m.lat_bin /\ a.lon_bin = m.lon_bin /\ a.dataset = m.dataset

\* anomaly_c = aggregate mean - climatology mean, for some aggregate and
\* baseline in the store that the record stands for
Consistent(a) ==
    \E m \in monthly, b \in baseline :
        /\ MonthlyOf(a, m)
        /\ Agree(m, b, a.baseline_period)
        /\ a.anomaly_c = RSub(m.avg_sst_c, b.climatology_sst_c)

\* C2: every anomaly record written by calculate_temperature_anomalies has
\* anomaly_c = (mean of the joined monthly aggregate) - (climatology mean of
\* the joined baseline), the two agreeing on (lat_bin, lon_bin, month,
\* dataset) and the baseline being of the requested period.
C2_AnomalyIsDifference ==
    last.op = "calculate_temperature_anomalies" =>
        \A k \in last.written :
            /\ \E a \in anomaly : AnomalyKey(a) = k
            /\ AnomalyRow(k).baseline_period = last.args[2]
            /\ Consistent(AnomalyRow(k))

C2_Witness ==
    /\ last.op = "calculate_temperature_anomalies"
    /\ \E k \in last.written : AnomalyRow(k).anomaly_c # RInt(0)

\* The monthly aggregates of a run's target year and dataset
TargetRows(target_year, dataset) ==
    {m \in monthly : m.year = target_year /\ m.dataset = dataset}

HasBaseline(m, period) == \E b \in baseline : Agree(m, b, period)

----------------------------------------------------------------------------
(* Claims about recomputation and the unique keys *)

RecomputeOps ==
    {"aggregate_daily_to_monthly", "aggregate_monthly_to_yearly",
     "calculate_climate_baseline", "calculate_temperature_anomalies"}

\* C5: running an aggregation, baseline or anomaly operation again with the
\* same arguments, right after it ran, leaves every table as the first run
\* left it: same keys, same values.
C5_RerunChangesNothing ==
    [][(last'.op \in RecomputeOps /\ last'.again) =>
          (/\ monthly' = monthly /\ yearly' = yearly
           /\ baseline' = baseline /\ anomaly' = anomaly
           /\ last'.written = last.written)]_vars

C5_Witness ==
    /\ last.op = "calculate_temperature_anomalies"
    /\ last.again
    /\ last.updated # {}

\* C6: each table holds at most one row per unique key: daily (date, bin,
\* dataset), monthly (year, month, bin, dataset), yearly (year, bin, dataset),
\* baseline (bin, month, period start, period end, dataset), anomaly (date,
\* bin, baseline period, dataset); a write to an existing key updates the row.
C6_UniqueKeys ==
    /\ \A r1, r2 \in daily : DailyKey(r1) = DailyKey(r2) => r1 = r2
    /\ \A r1, r2 \in monthly : MonthlyKey(r1) = MonthlyKey(r2) => r1 = r2
    /\ \A r1, r2 \in yearly : YearlyKey(r1) = YearlyKey(r2) => r1 = r2
    /\ \A r1, r2 \in baseline : BaselineKey(r1) = BaselineKey(r2) => r1 = r2
    /\ \A r1, r2 \in anomaly : AnomalyKey(r1) = AnomalyKey(r2) => r1 = r2

\* An ERSST file ingested again has just overwritten the monthly row of
\* December 2023 with another value, the table keeping its two rows
C6_Witness ==
    /\ last.op = "ingest_ersst"
    /\ last.updated # {}
    /\ Cardinality(monthly) = Cardinality(SeedMonthly)
    /\ \E r \in monthly : r.year = 2023 /\ r.avg_sst_c = RInt(10)

----------------------------------------------------------------------------
(* TemporalProcessor.detect_marine_heatwaves over one location's series *)

\* A daily series of one location: days 1..SeriesDays of January 2023
SeriesDays == 6
MaxDetections == 2
\* Values of the series; -999 is a fill value, which leaves the day missing
SeriesTemps == {10, 20, -999}
MinDurations == {3, 5}
Percentiles == {90}

SeriesDate(d) == <<2023, 1, d>>

\* The daily table after the OISST files of days 1..n have been ingested,
\* the file of day d holding the value f[d]
RECURSIVE IngestedDays(_, _)
IngestedDays(f, n) ==
    IF n = 0 THEN {}
    ELSE UpsertDaily(IngestedDays(f, n - 1),
                     OisstDailyRecords(SeriesDate(n), File(f[n])))

\* record_job_status: one job_run row, committed
RecordJobStatus(job_name, status) ==
    Append(jobs, [job |-> job_name, status |-> status])

\* detect_marine_heatwaves: detected_events = 0, status "success"; the
\* marine_heatwave table is not written
DetectMarineHeatwaves(start_date, end_date, dataset, threshold_percentile, min_duration) ==
    /\ jobs' = RecordJobStatus(<<"DETECT_HEATWAVES", dataset>>, "success")
    /\ last' = Ran("detect_marine_heatwaves",
                   <<start_date, end_date, dataset, threshold_percentile, min_duration>>,
                   {}, {}, FALSE)
    /\ steps' = steps + 1
    /\ UNCHANGED <<grid, daily, monthly, yearly, baseline, anomaly, heatwaves, api>>

InitDetect ==
    /\ grid = {}
    /\ daily \in {IngestedDays(f, SeriesDays) : f \in [1..SeriesDays -> SeriesTemps]}
    /\ monthly = {}
    /\ yearly = {}
    /\ baseline = {}
    /\ anomaly = {}
    /\ heatwaves = {}
    /\ jobs = <<>>
    /\ last = [op |-> "none", args |-> <<>>, written |-> {}, updated |-> {},
               error |-> FALSE, again |-> FALSE]
    /\ steps = 0
    /\ cache = [enabled |-> FALSE, entries |-> {}]
    /\ request = NoRequest
    /\ response = NoResponse

NextDetect ==
    /\ steps < MaxDetections
    /\ \E pct \in Percentiles, md \in MinDurations :
          DetectMarineHeatwaves(SeriesDate(1), SeriesDate(SeriesDays), "OISST", pct, md)

SpecDetect == InitDetect /\ [][NextDetect]_vars

\* The threshold the series is compared with: between its two values
Thresholds == {15}

\* Day d is present in the series and its value exceeds th
Exceeds(d, th) ==
    \E r \in daily : /\ r.date = SeriesDate(d)
                     /\ ~IsNull(r.avg_sst_c)
                     /\ ~RLe(r.avg_sst_c, RInt(th))

\* The maximal runs <<first, last>> of consecutive exceeding days that
\* last at least md days
MaximalRuns(th, md) ==
    {r \in (1..SeriesDays) \X (1..SeriesDays) :
        /\ r[1] <= r[2]
        /\ \A d \in r[1]..r[2] : Exceeds(d, th)
        /\ r[1] = 1 \/ ~Exceeds(r[1] - 1, th)
        /\ r[2] = SeriesDays \/ ~Exceeds(r[2] + 1, th)
        /\ r[2] - r[1] + 1 >= md}

\* C7: after detection over the series the stored events are exactly the
\* maximal runs of consecutive days above the threshold that last at least
\* min_duration days, a run still open on the last day included.
C7_EmitsMaximalRuns ==
    last.op = "detect_marine_heatwaves" =>
        \A th \in Thresholds :
            {<<e.start_date, e.end_date>> : e \in heatwaves}
              = {<<SeriesDate(r[1]), SeriesDate(r[2])>> :
                    r \in MaximalRuns(th, last.args[5])}
----------------------------------------------------------------------------
(* temporal_api.parse_bbox *)

\* A bbox string is the sequence of its comma-separated fields. A field is
\* <<"num", n>> (text that float() reads as the number n), <<"nan">> (text
\* that float() reads as NaN), <<"junk">> (text float() rejects) or
\* <<"empty">> (no text at all).
Coordinates == {-181, -180, -91, -90, 0, 90, 91, 180, 181}
Fields == {<<"num", n>> : n \in Coordinates} \cup {<<"nan">>, <<"junk">>, <<"empty">>}
FewFields == {<<"num", 0>>, <<"num", 10>>, <<"junk">>}

BBoxStrings ==
    [1..4 -> Fields] \cup [1..1 -> FewFields] \cup [1..2 -> FewFields]
        \cup [1..3 -> FewFields] \cup [1..5 -> FewFields]

\* A float: NaN, or the number val
Float(n) == [nan |-> FALSE, val |-> n]
NaN == [nan |-> TRUE, val |-> 0]

\* a <= b on floats: false when either side is NaN
FloatLe(a, b) == ~a.nan /\ ~b.nan /\ a.val <= b.val
\* a >= b on floats
FloatGe(a, b) == ~a.nan /\ ~b.nan /\ a.val >= b.val

\* float(x.strip()) raises ValueError
FloatFails(field) == field[1] \in {"junk", "empty"}
\* float(x.strip())
ParseFloat(field) == IF field[1] = "nan" THEN NaN ELSE Float(field[2])

\* -90 <= min_lat <= 90 and -90 <= max_lat <= 90
LatInRange(min_lat, max_lat) ==
    /\ FloatLe(Float(-90), min_lat) /\ FloatLe(min_lat, Float(90))
    /\ FloatLe(Float(-90), max_lat) /\ FloatLe(max_lat, Float(90))

\* -180 <= min_lon <= 180 and -180 <= max_lon <= 180
LonInRange(min_lon, max_lon) ==
    /\ FloatLe(Float(-180), min_lon) /\ FloatLe(min_lon, Float(180))
    /\ FloatLe(Float(-180), max_lon) /\ FloatLe(max_lon, Float(180))

\* Mutant of MinNotBelowMax: the comparison is strict, so min = max passes
MinAboveMax(min_lon, min_lat, max_lon, max_lat) ==
    \/ FloatGe(min_lat, max_lat) /\ min_lat # max_lat
    \/ FloatGe(min_lon, max_lon) /\ min_lon # max_lon

\* min_lat >= max_lat or min_lon >= max_lon
MinNotBelowMax(min_lon, min_lat, max_lon, max_lat) ==
    FloatGe(min_lat, max_lat) \/ FloatGe(min_lon, max_lon)

\* raise HTTPException(status_code=400, detail="Invalid bbox format: ...")
BBoxRejected(message) ==
    [status |-> "raised", exception |-> "HTTPException", status_code |-> 400,
     detail |-> <<"Invalid bbox format: ", message>>]

\* parse_bbox(bbox_str): the tuple (min_lon, min_lat, max_lon, max_lat), or
\* HTTPException(400) for whatever was raised inside the try block
ParseBBox(bbox_str) ==
    IF \E i \in 1..Len(bbox_str) : FloatFails(bbox_str[i])
    THEN BBoxRejected("could not convert string to float")
    ELSE IF Len(bbox_str) # 4
    THEN BBoxRejected("BBox must have 4 coordinates")
    ELSE LET min_lon == ParseFloat(bbox_str[1])
             min_lat == ParseFloat(bbox_str[2])
             max_lon == ParseFloat(bbox_str[3])
             max_lat == ParseFloat(bbox_str[4])
         IN  IF ~LatInRange(min_lat, max_lat)
             THEN BBoxRejected("Latitude must be between -90 and 90")
             ELSE IF ~LonInRange(min_lon, max_lon)
             THEN BBoxRejected("Longitude must be between -180 and 180")
             ELSE IF MinNotBelowMax(min_lon, min_lat, max_lon, max_lat)
             THEN BBoxRejected("Invalid bounding box: min values must be less than max values")
             ELSE [status |-> "returned",
                   value |-> <<min_lon, min_lat, max_lon, max_lat>>]

\* parse_bbox called on the string in flight
CallParseBBox ==
    /\ request.op = "parse_bbox"
    /\ response = NoResponse
    /\ response' = ParseBBox(request.args)
    /\ UNCHANGED <<grid, daily, monthly, yearly, baseline, anomaly, heatwaves,
                   jobs, last, steps, cache, request>>

InitBBox ==
    /\ grid = {}
    /\ daily = {}
    /\ monthly = {}
    /\ yearly = {}
    /\ baseline = {}
    /\ anomaly = {}
    /\ heatwaves = {}
    /\ jobs = <<>>
    /\ last = [op |-> "none", args |-> <<>>, written |-> {}, updated |-> {},
               error |-> FALSE, again |-> FALSE]
    /\ steps = 0
    /\ cache = [enabled |-> FALSE, entries |-> {}]
    /\ request \in {[op |-> "parse_bbox", args |-> b] : b \in BBoxStrings}
    /\ response = NoResponse

NextBBox == CallParseBBox

SpecBBox == InitBBox /\ [][NextBBox]_vars

\* The string has exactly four numeric coordinates (min_lon, min_lat,
\* max_lon, max_lat) with -90 <= min_lat < max_lat <= 90 and
\* -180 <= min_lon < max_lon <= 180
ValidBox(b) ==
    /\ Len(b) = 4
    /\ \A i \in 1..4 : b[i][1] = "num"
    /\ -90 <= b[2][2] /\ b[2][2] < b[4][2] /\ b[4][2] <= 90
    /\ -180 <= b[1][2] /\ b[1][2] < b[3][2] /\ b[3][2] <= 180

\* C9: parse_bbox returns the four coordinates unchanged if and only if the
\* string is a valid box; every other string is rejected with an error.
C9_AcceptsExactlyValidBoxes ==
    (request.op = "parse_bbox" /\ response # NoResponse) =>
        LET b == request.args
        IN  IF ValidBox(b)
            THEN /\ response.status = "returned"
                 /\ response.value = [i \in 1..4 |-> Float(b[i][2])]
            ELSE /\ response.status = "raised"
                 /\ response.status_code = 400

\* The whole globe was accepted, and so the bounds are inclusive
C9_Witness ==
    /\ request.op = "parse_bbox"
    /\ response.status = "returned"
    /\ response.value = <<Float(-180), Float(-90), Float(180), Float(90)>>
----------------------------------------------------------------------------
(* TemporalDataManager.get_marine_heatwaves *)

EventDays == {1, 2, 3}
EventDate(d) == <<2023, 1, d>>

\* The stored events the queries run over: one or two rows with start_date
\* <= end_date and duration_days = end - start + 1, of percentile 90 or 95,
\* at latitude 1 or 5, of dataset OISST or ERSST
EventKinds == {<<90, 1, "OISST">>, <<95, 1, "OISST">>, <<90, 5, "OISST">>, <<90, 1, "ERSST">>}

HeatwaveRow(id, s, e, k) ==
    [id |-> id, start_date |-> EventDate(s), end_date |-> EventDate(e),
     duration_days |-> e - s + 1, lat_bin |-> k[2], lon_bin |-> 0,
     threshold_percentile |-> k[1], dataset |-> k[3]]

HeatwaveRows(id) ==
    {HeatwaveRow(id, s, e, k) : s \in EventDays, e \in EventDays, k \in EventKinds}

WellFormed(r) == DateLe(r.start_date, r.end_date)

HeatwaveTables ==
    {{}} \cup {{r1} : r1 \in {r \in HeatwaveRows(1) : WellFormed(r)}}
         \cup {{r1, r2} : r1 \in {r \in HeatwaveRows(1) : WellFormed(r)},
                          r2 \in {r \in HeatwaveRows(2) : WellFormed(r)}}

NoBBox == <<>>
NoDataset == ""

\* Mutant of OverlapFilter: only events that start or end inside the window
OverlapFilterEndpointInside(r, start_date, end_date) ==
    \/ DateLe(start_date, r.start_date) /\ DateLe(r.start_date, end_date)
    \/ DateLe(start_date, r.end_date) /\ DateLe(r.end_date, end_date)

\* or_(start_date in window, end_date in window, event covers the window)
OverlapFilter(r, start_date, end_date) ==
    \/ DateLe(start_date, r.start_date) /\ DateLe(r.start_date, end_date)
    \/ DateLe(start_date, r.end_date) /\ DateLe(r.end_date, end_date)
    \/ DateLe(r.start_date, start_date) /\ DateLe(end_date, r.end_date)

\* lat_col >= min_lat and lat_col <= max_lat and lon_col >= min_lon and
\* lon_col <= max_lon on rational columns, the box being a tuple of floats
\* (min_lon, min_lat, max_lon, max_lat); no condition without a box
InBox(lat, lon, box) ==
    box # NoBBox =>
        /\ RLe(RInt(box[2].val), lat) /\ RLe(lat, RInt(box[4].val))
        /\ RLe(RInt(box[1].val), lon) /\ RLe(lon, RInt(box[3].val))

\* if bbox: lat_bin and lon_bin within the box
BBoxFilter(r, bbox) == InBox(RInt(r.lat_bin), RInt(r.lon_bin), bbox)

\* if dataset: dataset == :dataset
DatasetFilter(r, dataset) == dataset # NoDataset => r.dataset = dataset

\* The WHERE clause of get_marine_heatwaves
HeatwaveSelect(start_date, end_date, bbox, min_duration, threshold_percentile, dataset) ==
    {r \in heatwaves :
        /\ OverlapFilter(r, start_date, end_date)
        /\ r.duration_days >= min_duration
        /\ r.threshold_percentile = threshold_percentile
        /\ BBoxFilter(r, bbox)
        /\ DatasetFilter(r, dataset)}

\* ORDER BY start_date DESC: every order of the rows that is descending in
\* start_date (the order among equal start dates is the database's choice)
OrderByStartDesc(S) ==
    {q \in [1..Cardinality(S) -> S] :
        /\ \A i, j \in 1..Cardinality(S) : i # j => q[i] # q[j]
        /\ \A i, j \in 1..Cardinality(S) :
              i < j => DateLe(q[j].start_date, q[i].start_date)}

\* LIMIT :limit OFFSET :offset
LimitOffset(q, limit, offset) ==
    SubSeq(q, offset + 1, IF offset + limit < Len(q) THEN offset + limit ELSE Len(q))

\* date.isoformat(): the text YYYY-MM-DD
IsoFormat(d) == <<d[1], "-", d[2], "-", d[3]>>

\* _serialize_heatwave_record
SerializeHeatwave(r) ==
    [id |-> r.id, start_date |-> IsoFormat(r.start_date),
     end_date |-> IsoFormat(r.end_date), duration_days |-> r.duration_days,
     lat |-> r.lat_bin, lon |-> r.lon_bin,
     threshold_percentile |-> r.threshold_percentile, dataset |-> r.dataset]

Serialized(q, F(_)) == [i \in 1..Len(q) |-> F(q[i])]

\* get_marine_heatwaves(start_date, end_date, bbox, min_duration,
\* threshold_percentile, dataset, limit, offset): the lists it can return
GetMarineHeatwaves(start_date, end_date, bbox, min_duration, threshold_percentile, dataset, limit, offset) ==
    LET rows == HeatwaveSelect(start_date, end_date, bbox, min_duration,
                               threshold_percentile, dataset)
    IN  {Serialized(LimitOffset(q, limit, offset), SerializeHeatwave) :
            q \in OrderByStartDesc(rows)}

\* get_marine_heatwaves called with the arguments in flight
CallGetMarineHeatwaves ==
    /\ request.op = "get_marine_heatwaves"
    /\ response = NoResponse
    /\ LET a == request.args
       IN  \E rows \in GetMarineHeatwaves(a.start_date, a.end_date, a.bbox,
                         a.min_duration, a.threshold_percentile, a.dataset,
                         a.limit, a.offset) :
              response' = [status |-> "returned", rows |-> rows]
    /\ UNCHANGED <<grid, daily, monthly, yearly, baseline, anomaly, heatwaves,
                   jobs, last, steps, cache, request>>

\* The calls the model makes: windows with start_date <= end_date
QueryBoxes == {NoBBox, <<Float(-1), Float(0), Float(1), Float(2)>>}
QueryPages == {<<1, 0>>, <<1, 1>>, <<5, 0>>}

HeatwaveQueries ==
    {[start_date |-> EventDate(s), end_date |-> EventDate(e), bbox |-> b,
      min_duration |-> md, threshold_percentile |-> pct, dataset |-> ds,
      limit |-> pg[1], offset |-> pg[2]] :
        s \in EventDays, e \in EventDays, b \in QueryBoxes, md \in {1, 3},
        pct \in Percentiles, ds \in {NoDataset, "OISST"}, pg \in QueryPages}

InitQuery ==
    /\ grid = {}
    /\ daily = {}
    /\ monthly = {}
    /\ yearly = {}
    /\ baseline = {}
    /\ anomaly = {}
    /\ heatwaves \in HeatwaveTables
    /\ jobs = <<>>
    /\ last = [op |-> "none", args |-> <<>>, written |-> {}, updated |-> {},
               error |-> FALSE, again |-> FALSE]
    /\ steps = 0
    /\ cache = [enabled |-> FALSE, entries |-> {}]
    /\ request \in {[op |-> "get_marine_heatwaves", args |-> a] :
                       a \in {x \in HeatwaveQueries : DateLe(x.start_date, x.end_date)}}
    /\ response = NoResponse

NextQuery == CallGetMarineHeatwaves

SpecQuery == InitQuery /\ [][NextQuery]_vars

\* A stored event passes the duration, percentile, bbox and dataset filters
\* of the query a
PassesFilters(r, a) ==
    /\ r.duration_days >= a.min_duration
    /\ r.threshold_percentile = a.threshold_percentile
    /\ BBoxFilter(r, a.bbox)
    /\ DatasetFilter(r, a.dataset)

\* The event's [start_date, end_date] overlaps the query window
Overlaps(r, a) ==
    DateLe(r.start_date, a.end_date) /\ DateLe(a.start_date, r.end_date)

\* The events a query must return, before pagination
Expected(a) == {r \in heatwaves : PassesFilters(r, a) /\ Overlaps(r, a)}

Returned == {response.rows[i].id : i \in 1..Len(response.rows)}

\* C8: get_marine_heatwaves with start_date <= end_date returns only stored
\* events that pass the filters and overlap the window, each once, and as
\* many of them as the page holds: min(limit, number of such events -
\* offset); a page that holds them all returns exactly the events that pass
\* the filters and overlap the window.
C8_ReturnsOverlapping ==
    (request.op = "get_marine_heatwaves" /\ response.status = "returned") =>
        LET a == request.args
            E == {r.id : r \in Expected(a)}
            left == IF Cardinality(E) > a.offset THEN Cardinality(E) - a.offset ELSE 0
        IN  /\ Returned \subseteq E
            /\ Cardinality(Returned) = Len(response.rows)
            /\ Len(response.rows) = IF a.limit < left THEN a.limit ELSE left
            /\ \A i \in 1..Len(response.rows) :
                  \E r \in Expected(a) : response.rows[i] = SerializeHeatwave(r)
            /\ (a.offset = 0 /\ a.limit >= Cardinality(E)) => Returned = E

\* A query returned an event that covers its window on both sides and left
\* out a stored event that passes the filters but does not overlap
C8_Witness ==
    /\ request.op = "get_marine_heatwaves"
    /\ response.status = "returned"
    /\ \E r \in heatwaves :
          /\ r.id \in Returned
          /\ r.start_date # request.args.start_date
          /\ DateLe(r.start_date, request.args.start_date)
          /\ r.end_date # request.args.end_date
          /\ DateLe(request.args.end_date, r.end_date)
    /\ \E r \in heatwaves :
          /\ PassesFilters(r, request.args)
          /\ ~Overlaps(r, request.args)
          /\ r.id \notin Returned
----------------------------------------------------------------------------
(* The query endpoints of temporal_api: /temperatures, /anomalies, /heatwaves *)

\* A date parameter is the text "Y-M-D" held as <<Y, M, D>>, or <<>> for a
\* text that is not of that shape. A bbox parameter is None (NoBBox) or a
\* bbox string; a dataset parameter is None (NoDataset) or a name.
EmptyString == <<<<"empty">>>>

\* datetime.strptime(text, "%Y-%m-%d") raises ValueError
StrptimeFails(text) ==
    \/ Len(text) # 3
    \/ text[2] \notin 1..12
    \/ text[3] \notin 1..DaysInMonth(text[1], text[2])

\* if bbox: (None and the empty string are both false)
Truthy(bbox) == bbox # NoBBox /\ bbox # EmptyString

Return(body) == [kind |-> "return", body |-> body]
Raise(exception, status_code, detail) ==
    [kind |-> "raise", exception |-> exception, status_code |-> status_code,
     detail |-> detail]

Passed == [kind |-> "passed"]

\* The statements every try block starts with: strptime of both dates,
\* then "if start_dt > end_dt: raise HTTPException(400, ...)"
ParseDates(a) ==
    IF StrptimeFails(a.start_date) \/ StrptimeFails(a.end_date)
    THEN Raise("ValueError", 0, "time data does not match format '%Y-%m-%d'")
    ELSE IF ~DateLe(a.start_date, a.end_date)
    THEN Raise("HTTPException", 400, "Start date must be before end date")
    ELSE Passed

\* if bbox: bbox_coords = parse_bbox(bbox)
ParseBBoxParameter(a) ==
    IF Truthy(a.bbox) /\ ParseBBox(a.bbox).status = "raised"
    THEN Raise("HTTPException", 400, ParseBBox(a.bbox).detail)
    ELSE Passed

BBoxCoords(a) == IF Truthy(a.bbox) THEN ParseBBox(a.bbox).value ELSE NoBBox

\* ORDER BY <date> DESC: every order of the rows descending in D(row)
OrderByDesc(S, D(_)) ==
    {q \in [1..Cardinality(S) -> S] :
        /\ \A i, j \in 1..Cardinality(S) : i # j => q[i] # q[j]
        /\ \A i, j \in 1..Cardinality(S) : i < j => DateLe(D(q[j]), D(q[i]))}

Aggregated == {"daily", "monthly", "yearly"}

\* get_temperature_data: the table and the date, lat, lon columns of a resolution
TemperatureTable(resolution) ==
    IF resolution = "daily" THEN daily
    ELSE IF resolution = "monthly" THEN monthly
    ELSE IF resolution = "yearly" THEN yearly
    ELSE grid

DateCol(r, resolution) ==
    IF resolution = "monthly" THEN <<r.year, r.month, 1>>
    ELSE IF resolution = "yearly" THEN <<r.year, 1, 1>>
    ELSE r.date

LatCol(r, resolution) == IF resolution \in Aggregated THEN RInt(r.lat_bin) ELSE r.lat
LonCol(r, resolution) == IF resolution \in Aggregated THEN RInt(r.lon_bin) ELSE r.lon

\* _serialize_temperature_record
SerializeTemperature(r, resolution) ==
    IF resolution \in Aggregated
    THEN [dataset |-> r.dataset, date |-> IsoFormat(DateCol(r, resolution)),
          lat |-> r.lat_bin, lon |-> r.lon_bin, avg_sst_c |-> r.avg_sst_c,
          min_sst_c |-> r.min_sst_c, max_sst_c |-> r.max_sst_c,
          std_sst_c |-> r.std_sst_c, count |-> r.count]
    ELSE [dataset |-> r.dataset, date |-> IsoFormat(r.date),
          lat |-> r.lat, lon |-> r.lon, sst_c |-> r.sst_c]

\* get_temperature_data(start_date, end_date, bbox, dataset, resolution, limit, offset)
GetTemperatureData(start_date, end_date, bbox, dataset, resolution, limit, offset) ==
    LET rows == {r \in TemperatureTable(resolution) :
                    /\ DateLe(start_date, DateCol(r, resolution))
                    /\ DateLe(DateCol(r, resolution), end_date)
                    /\ InBox(LatCol(r, resolution), LonCol(r, resolution), bbox)
                    /\ DatasetFilter(r, dataset)}
        D(r) == DateCol(r, resolution)
        F(r) == SerializeTemperature(r, resolution)
    IN  {Serialized(LimitOffset(q, limit, offset), F) : q \in OrderByDesc(rows, D)}

\* |anomaly_c| of a rational
RAbs(x) == <<Abs(x[1]), x[2]>>

\* _serialize_anomaly_record
SerializeAnomaly(r) ==
    [date |-> IsoFormat(r.date), lat |-> r.lat_bin, lon |-> r.lon_bin,
     anomaly_c |-> r.anomaly_c, baseline_period |-> r.baseline_period,
     dataset |-> r.dataset]

\* get_temperature_anomalies(start_date, end_date, baseline, bbox, dataset,
\* threshold, limit, offset); threshold None is NULL
GetTemperatureAnomalies(start_date, end_date, baseline_period, bbox, dataset, threshold, limit, offset) ==
    LET rows == {r \in anomaly :
                    /\ DateLe(start_date, r.date)
                    /\ DateLe(r.date, end_date)
                    /\ r.baseline_period = baseline_period
                    /\ InBox(RInt(r.lat_bin), RInt(r.lon_bin), bbox)
                    /\ DatasetFilter(r, dataset)
                    /\ ~IsNull(threshold) => RLe(threshold, RAbs(r.anomaly_c))}
        D(r) == r.date
    IN  {Serialized(LimitOffset(q, limit, offset), SerializeAnomaly) :
            q \in OrderByDesc(rows, D)}
\* What the try block of /temperatures can do
TryGetTemperatures(a) ==
    IF ParseDates(a) # Passed THEN {ParseDates(a)}
    ELSE IF ParseBBoxParameter(a) # Passed THEN {ParseBBoxParameter(a)}
    ELSE {Return([count |-> Len(data), resolution |-> a.resolution,
                  start_date |-> a.start_date, end_date |-> a.end_date,
                  bbox |-> BBoxCoords(a), dataset |-> a.dataset, data |-> data]) :
            data \in GetTemperatureData(a.start_date, a.end_date, BBoxCoords(a),
                                        a.dataset, a.resolution, a.limit, a.offset)}

\* What the try block of /anomalies can do; baseline.count('-') is the
\* number of parts of the baseline text less one
TryGetTemperatureAnomalies(a) ==
    IF ParseDates(a) # Passed THEN {ParseDates(a)}
    ELSE IF Len(a.baseline) - 1 # 1
    THEN {Raise("HTTPException", 400, "Baseline must be in format YYYY-YYYY")}
    ELSE IF ParseBBoxParameter(a) # Passed THEN {ParseBBoxParameter(a)}
    ELSE {Return([count |-> Len(data), baseline_period |-> a.baseline,
                  start_date |-> a.start_date, end_date |-> a.end_date,
                  bbox |-> BBoxCoords(a), data |-> data]) :
            data \in GetTemperatureAnomalies(a.start_date, a.end_date, a.baseline,
                        BBoxCoords(a), a.dataset, a.threshold, a.limit, a.offset)}

\* What the try block of /heatwaves can do
TryGetMarineHeatwaves(a) ==
    IF ParseDates(a) # Passed THEN {ParseDates(a)}
    ELSE IF ParseBBoxParameter(a) # Passed THEN {ParseBBoxParameter(a)}
    ELSE {Return([count |-> Len(data), start_date |-> a.start_date,
                  end_date |-> a.end_date, min_duration |-> a.duration,
                  threshold_percentile |-> a.threshold, bbox |-> BBoxCoords(a),
                  events |-> data]) :
            data \in GetMarineHeatwaves(a.start_date, a.end_date, BBoxCoords(a),
                        a.duration, a.threshold, a.dataset, a.limit, a.offset)}

\* except ValueError as e: HTTPException(400, str(e))
\* except Exception as e: HTTPException(500, "Internal server error: " + str(e))
Answer(outcome) ==
    IF outcome.kind = "return"
    THEN [status_code |-> 200, body |-> outcome.body, queried |-> TRUE]
    ELSE IF outcome.exception = "ValueError"
    THEN [status_code |-> 400, detail |-> outcome.detail, queried |-> FALSE]
    ELSE [status_code |-> 500,
          detail |-> <<"Internal server error: ", outcome.detail>>,
          queried |-> FALSE]

\* get_cache_key: the endpoint and its parameters
CacheKey(endpoint, a) == <<endpoint, a>>

Cached(key) == cache.enabled /\ \E e \in cache.entries : e.key = key

\* set_cached_result: redis SETEX replaces the entry of the key
SetCachedResult(key, data) ==
    IF cache.enabled
    THEN [cache EXCEPT !.entries =
             {e \in cache.entries : e.key # key} \cup {[key |-> key, data |-> data]}]
    ELSE cache

\* A query endpoint answering one request: the cached result if there is
\* one, else the outcome of the try block, cached when it is a response
Endpoint(endpoint, a, outcomes) ==
    /\ request' = [op |-> endpoint, args |-> a]
    /\ steps' = steps + 1
    /\ IF Cached(CacheKey(endpoint, a))
       THEN /\ \E e \in cache.entries :
                  /\ e.key = CacheKey(endpoint, a)
                  /\ response' = [status_code |-> 200, body |-> e.data,
                                  queried |-> FALSE]
            /\ cache' = cache
       ELSE \E o \in outcomes :
               /\ response' = Answer(o)
               /\ cache' = IF o.kind = "return"
                           THEN SetCachedResult(CacheKey(endpoint, a), o.body)
                           ELSE cache
    /\ UNCHANGED <<grid, daily, monthly, yearly, baseline, anomaly, heatwaves,
                   jobs, last>>

GetTemperaturesEndpoint(a) == Endpoint("temperatures", a, TryGetTemperatures(a))
GetTemperatureAnomaliesEndpoint(a) ==
    Endpoint("anomalies", a, TryGetTemperatureAnomalies(a))
GetMarineHeatwavesEndpoint(a) == Endpoint("heatwaves", a, TryGetMarineHeatwaves(a))

\* The redis TTL of an entry runs out
CacheExpire ==
    /\ \E e \in cache.entries : cache' = [cache EXCEPT !.entries = @ \ {e}]
    /\ UNCHANGED <<grid, daily, monthly, yearly, baseline, anomaly, heatwaves,
                   jobs, last, steps, request, response>>
\* The requests the model sends: two dates, an impossible date, a text that
\* is no date; no bbox, the empty string, a box, a longitude out of range,
\* three fields
ApiDates == {<<2023, 12, 1>>, <<2023, 12, 31>>, <<2023, 2, 30>>, <<>>}
ApiBoxes ==
    {NoBBox, EmptyString,
     <<<<"num", -10>>, <<"num", -10>>, <<"num", 10>>, <<"num", 10>>>>,
     <<<<"num", 200>>, <<"num", 0>>, <<"num", 210>>, <<"num", 10>>>>,
     <<<<"num", 0>>, <<"num", 0>>, <<"num", 10>>>>}
ApiBaselines == {<<2022, 2023>>, <<2022>>}
MaxRequests == 2

TemperatureRequests ==
    {[start_date |-> s, end_date |-> e, resolution |-> "monthly", bbox |-> b,
      dataset |-> NoDataset, limit |-> 5000, offset |-> 0] :
        s \in ApiDates, e \in ApiDates, b \in ApiBoxes}

AnomalyRequests ==
    {[start_date |-> s, end_date |-> e, baseline |-> p, bbox |-> b,
      dataset |-> NoDataset, threshold |-> NULL, limit |-> 5000, offset |-> 0] :
        s \in ApiDates, e \in ApiDates, p \in ApiBaselines, b \in ApiBoxes}

HeatwaveRequests ==
    {[start_date |-> s, end_date |-> e, bbox |-> b, threshold |-> 90,
      duration |-> 5, dataset |-> NoDataset, limit |-> 1000, offset |-> 0] :
        s \in ApiDates, e \in ApiDates, b \in ApiBoxes}

\* The API over the store a backfill has filled, with redis up or down
InitApi ==
    /\ grid = SeedGrid
    /\ daily = SeedDaily
    /\ monthly = SeedMonthly
    /\ yearly = {}
    /\ baseline = {}
    /\ anomaly = {}
    /\ heatwaves = {}
    /\ jobs = <<>>
    /\ last = [op |-> "ingest_oisst", args |-> <<<<2023, 12, 31>>>>,
               written |-> {DailyKey(r) : r \in OisstDailyRecords(<<2023, 12, 31>>, File(12))},
               updated |-> {}, error |-> FALSE, again |-> FALSE]
    /\ steps = SeedSteps
    /\ cache \in {[enabled |-> en, entries |-> {}] : en \in BOOLEAN}
    /\ request = NoRequest
    /\ response = NoResponse

MoreRequests == steps < SeedSteps + MaxRequests

NextApi ==
    \/ MoreRequests /\ \E a \in TemperatureRequests : GetTemperaturesEndpoint(a)
    \/ MoreRequests /\ \E a \in AnomalyRequests : GetTemperatureAnomaliesEndpoint(a)
    \/ MoreRequests /\ \E a \in HeatwaveRequests : GetMarineHeatwavesEndpoint(a)
    \/ CacheExpire

SpecApi == InitApi /\ [][NextApi]_vars

Endpoints == {"temperatures", "anomalies", "heatwaves"}

\* The request fails validation: a date that is not an ISO date, a start
\* date later than the end date, or a bbox that is given (an empty bbox
\* parameter counts as not given) and is not a valid box
ValidationFailure(a) ==
    \/ StrptimeFails(a.start_date)
    \/ StrptimeFails(a.end_date)
    \/ ~DateLe(a.start_date, a.end_date)
    \/ Truthy(a.bbox) /\ ~ValidBox(a.bbox)

\* C10: a request that fails validation is answered with HTTP 400, not with
\* HTTP 500 and not with data, and the store is not queried.
C10_ValidationFailureIs400 ==
    (request.op \in Endpoints /\ ValidationFailure(request.args)) =>
        /\ response.status_code = 400
        /\ ~response.queried
----------------------------------------------------------------------------
(* The rollups called with malformed arguments *)

\* A period whose start_year is after its end_year, and a well-formed one
MalformedPeriods == {<<2023, 2022>>, <<2022, 2023>>}
\* Zero and negative spatial resolutions, and a positive one
MalformedResolutions == {0, -1, 1}
MaxMalformed == 3

NextMalformed ==
    \/ /\ steps < SeedSteps + MaxMalformed
       /\ \E ds \in Datasets, res \in MalformedResolutions :
             AggregateDailyToMonthly(2023, 12, ds, res)
    \/ /\ steps < SeedSteps + MaxMalformed
       /\ \E ds \in Datasets, res \in MalformedResolutions :
             AggregateMonthlyToYearly(2023, ds, res)
    \/ /\ steps < SeedSteps + MaxMalformed
       /\ \E p \in MalformedPeriods, ds \in Datasets, res \in MalformedResolutions :
             CalculateClimateBaseline(p[1], p[2], ds, res)

SpecMalformed == InitSeeded /\ [][NextMalformed]_vars

\* The resolution argument of the run that ran last
ResolutionOf(run) ==
    IF run.op = "aggregate_daily_to_monthly" THEN run.args[4]
    ELSE IF run.op = "aggregate_monthly_to_yearly" THEN run.args[3]
    ELSE run.args[4]

Malformed(run) ==
    \/ /\ run.op = "calculate_climate_baseline"
       /\ run.args[1] > run.args[2]
    \/ /\ run.op \in {"aggregate_daily_to_monthly", "aggregate_monthly_to_yearly",
                      "calculate_climate_baseline"}
       /\ ResolutionOf(run) <= 0

\* C11: a rollup called with start_year > end_year or with a non-positive
\* spatial resolution ends in an error and writes nothing; it never completes
\* with zero or more records.
C11_MalformedInputRejected ==
    Malformed(last) => last.error /\ last.written = {}

----------------------------------------------------------------------------
(* The batch loops of TemporalProcessor and the backfill loops of the       *)
(* ingesters. The variable request holds the frame of the run in flight:    *)
(* its job name, arguments, list of units, loop position and counters,      *)
(* with two history fields: attempted (the units tried so far, in order)    *)
(* and outcomes (how each of them ended: "ok", "raised" or "failed").       *)

MaxBatches == 2

Frame(job, args, units) ==
    [op |-> job[1], job |-> job, args |-> args, units |-> units, i |-> 1,
     total_records |-> 0, success_count |-> 0, error_count |-> 0,
     attempted |-> <<>>, outcomes |-> <<>>, aborted |-> FALSE, pc |-> "loop"]

\* No run in flight, and room for one more
Idle ==
    /\ Len(jobs) < MaxBatches
    /\ IF request.op = "none" THEN TRUE ELSE request.pc = "done"

\* The run of this job is at the head of its for loop with a unit left
AtUnit(op) ==
    /\ request.op = op
    /\ request.pc = "loop"
    /\ request.i <= Len(request.units)

Unit == request.units[request.i]

\* One iteration of a TemporalProcessor loop: records is the rowcount the
\* data manager returned, or the unit raised and the except clause continued
Iterated(raised, records, db_error) ==
    [request EXCEPT !.i = @ + 1,
                    !.total_records = IF raised THEN @ ELSE @ + records,
                    !.attempted = Append(@, Unit),
                    !.outcomes = Append(@, IF raised THEN "raised" ELSE "ok"),
                    !.aborted = @ \/ db_error]

\* date(year, month, 1) raises ValueError for a month outside 1..12
DateRaises(year, month) == year \notin 1..9999 \/ month \notin 1..12

\* start_year, end_year = map(int, period.split('-')) raises ValueError
\* unless the string has exactly two fields
PeriodRaises(period) == Len(period) # 2

\* for period in baseline_periods: for dataset in datasets, and
\* for year in years: for dataset in datasets
RECURSIVE Nested(_, _)
Nested(outer, inner) ==
    IF outer = <<>> THEN <<>>
    ELSE [d \in 1..Len(inner) |-> <<Head(outer), inner[d]>>] \o Nested(Tail(outer), inner)

\* TemporalProcessor.aggregate_daily_to_monthly, up to the loop
StartAggregateDailyToMonthly(year, dataset, months) ==
    /\ Idle
    /\ request' = Frame(<<"AGGREGATE_DAILY_MONTHLY", dataset>>,
                        [year |-> year, dataset |-> dataset], months)
    /\ response' = NoResponse
    /\ UNCHANGED <<grid, daily, monthly, yearly, baseline, anomaly, heatwaves,
                   jobs, last, steps, cache>>

\* for month in months: data_manager.aggregate_daily_to_monthly(..., 1.0)
UnitAggregateDailyToMonthly ==
    /\ AtUnit("AGGREGATE_DAILY_MONTHLY")
    /\ LET year == request.args.year
           dataset == request.args.dataset
           raised == DateRaises(year, Unit)
           rows == IF raised THEN {} ELSE MonthlyRollup(year, Unit, dataset, 1)
       IN  /\ monthly' = UpsertMonthly(monthly, rows)
           /\ request' = Iterated(raised, Cardinality(rows), FALSE)
           /\ last' = Ran("aggregate_daily_to_monthly", <<year, Unit, dataset, 1>>,
                          {MonthlyKey(n) : n \in rows},
                          {MonthlyKey(r) : r \in monthly}, raised)
    /\ steps' = steps + 1
    /\ UNCHANGED <<grid, daily, yearly, baseline, anomaly, heatwaves, jobs,
                   cache, response>>

\* TemporalProcessor.aggregate_monthly_to_yearly, up to the loop
StartAggregateMonthlyToYearly(years, dataset) ==
    /\ Idle
    /\ request' = Frame(<<"AGGREGATE_MONTHLY_YEARLY", dataset>>,
                        [dataset |-> dataset], years)
    /\ response' = NoResponse
    /\ UNCHANGED <<grid, daily, monthly, yearly, baseline, anomaly, heatwaves,
                   jobs, last, steps, cache>>

\* for year in years: data_manager.aggregate_monthly_to_yearly(..., 2.0)
UnitAggregateMonthlyToYearly ==
    /\ AtUnit("AGGREGATE_MONTHLY_YEARLY")
    /\ LET dataset == request.args.dataset
           rows == YearlyRollup(Unit, dataset, 2)
       IN  /\ yearly' = UpsertYearly(yearly, rows)
           /\ request' = Iterated(FALSE, Cardinality(rows), FALSE)
           /\ last' = Ran("aggregate_monthly_to_yearly", <<Unit, dataset, 2>>,
                          {YearlyKey(n) : n \in rows},
                          {YearlyKey(r) : r \in yearly}, FALSE)
    /\ steps' = steps + 1
    /\ UNCHANGED <<grid, daily, monthly, baseline, anomaly, heatwaves, jobs,
                   cache, response>>

\* TemporalProcessor.calculate_climate_baselines, up to the loops
StartCalculateClimateBaselines(baseline_periods, datasets) ==
    /\ Idle
    /\ request' = Frame(<<"CALCULATE_BASELINES">>,
                        [baseline_periods |-> baseline_periods, datasets |-> datasets],
                        Nested(baseline_periods, datasets))
    /\ response' = NoResponse
    /\ UNCHANGED <<grid, daily, monthly, yearly, baseline, anomaly, heatwaves,
                   jobs, last, steps, cache>>

\* data_manager.calculate_climate_baseline(start_year, end_year, dataset, 2.0)
\* for one period and dataset. A statement the database refused leaves the
\* data manager's session in a failed transaction, which the loop never
\* rolls back: every later statement of the run is refused as well.
UnitCalculateClimateBaselines ==
    /\ AtUnit("CALCULATE_BASELINES")
    /\ ~PeriodRaises(Unit[1])
    /\ LET start_year == PeriodStart(Unit[1])
           end_year == PeriodEnd(Unit[1])
           rows == BaselineSelect(start_year, end_year, Unit[2], 2)
           refused == BaselineNotNullViolation(rows)
           raised == request.aborted \/ refused
       IN  /\ baseline' = IF raised THEN baseline ELSE UpsertBaseline(baseline, rows)
           /\ request' = Iterated(raised, Cardinality(rows), raised)
           /\ last' = Ran("calculate_climate_baseline",
                          <<start_year, end_year, Unit[2], 2>>,
                          {BaselineKey(n) : n \in rows},
                          {BaselineKey(r) : r \in baseline}, raised)
    /\ steps' = steps + 1
    /\ UNCHANGED <<grid, daily, monthly, yearly, anomaly, heatwaves, jobs,
                   cache, response>>

\* TemporalProcessor.calculate_temperature_anomalies, up to the loops
StartCalculateTemperatureAnomalies(years, baseline_period, datasets) ==
    /\ Idle
    /\ request' = Frame(<<"CALCULATE_ANOMALIES", baseline_period>>,
                        [baseline_period |-> baseline_period],
                        Nested(years, datasets))
    /\ response' = NoResponse
    /\ UNCHANGED <<grid, daily, monthly, yearly, baseline, anomaly, heatwaves,
                   jobs, last, steps, cache>>

\* data_manager.calculate_temperature_anomalies(year, baseline_period, dataset)
UnitCalculateTemperatureAnomalies ==
    /\ AtUnit("CALCULATE_ANOMALIES")
    /\ LET period == request.args.baseline_period
           raised == PeriodRaises(period)
           rows == IF raised THEN {} ELSE AnomalySelect(Unit[1], period, Unit[2])
       IN  /\ anomaly' = UpsertAnomaly(anomaly, rows)
           /\ request' = Iterated(raised, Cardinality(rows), FALSE)
           /\ last' = Ran("calculate_temperature_anomalies",
                          <<Unit[1], period, Unit[2]>>,
                          {AnomalyKey(n) : n \in rows},
                          {AnomalyKey(r) : r \in anomaly}, raised)
    /\ steps' = steps + 1
    /\ UNCHANGED <<grid, daily, monthly, yearly, baseline, heatwaves, jobs,
                   cache, response>>

ProcessorJobs ==
    {"AGGREGATE_DAILY_MONTHLY", "AGGREGATE_MONTHLY_YEARLY", "CALCULATE_BASELINES",
     "CALCULATE_ANOMALIES"}

\* main: the method returned, no exception reached main's handlers, and the
\* process ends with exit status 0
MainReturns(value) == [status |-> "returned", value |-> value, exit_code |-> 0]

\* After the loop of a TemporalProcessor method:
\* status = "success" if total_records > 0 else "error"; record_job_status;
\* return total_records
FinishProcessorLoop ==
    /\ request.op \in ProcessorJobs
    /\ request.pc = "loop"
    /\ request.i > Len(request.units)
    /\ jobs' = RecordJobStatus(request.job,
                   IF request.total_records > 0 THEN "success" ELSE "error")
    /\ request' = [request EXCEPT !.pc = "done"]
    /\ response' = MainReturns(request.total_records)
    /\ UNCHANGED <<grid, daily, monthly, yearly, baseline, anomaly, heatwaves,
                   last, steps, cache>>

\* calculate_climate_baselines: the period string of the outer loop does not
\* parse; the ValueError is raised outside the inner try, the outer except
\* records "error" and returns 0
AbortCalculateClimateBaselines ==
    /\ AtUnit("CALCULATE_BASELINES")
    /\ PeriodRaises(Unit[1])
    /\ jobs' = RecordJobStatus(request.job, "error")
    /\ request' = [request EXCEPT !.pc = "done"]
    /\ response' = MainReturns(0)
    /\ UNCHANGED <<grid, daily, monthly, yearly, baseline, anomaly, heatwaves,
                   last, steps, cache>>

\* Mutant of Counted: the loop steps over the unit after the current one
CountedSkippingNext(outcome) ==
    [request EXCEPT !.i = @ + 2,
                    !.success_count = IF outcome = "ok" THEN @ + 1 ELSE @,
                    !.error_count = IF outcome = "ok" THEN @ ELSE @ + 1,
                    !.attempted = Append(@, Unit),
                    !.outcomes = Append(@, outcome)]

\* One iteration of a backfill loop
Counted(outcome) ==
    [request EXCEPT !.i = @ + 1,
                    !.success_count = IF outcome = "ok" THEN @ + 1 ELSE @,
                    !.error_count = IF outcome = "ok" THEN @ ELSE @ + 1,
                    !.attempted = Append(@, Unit),
                    !.outcomes = Append(@, outcome)]

\* ERSSTIngester.run_historical_backfill, up to the loop; available_files is
\* what discover_available_files found
StartErsstBackfill(available_files) ==
    /\ Idle
    /\ request' = Frame(<<"ERSST_TEMPORAL">>, [store_grid |-> TRUE], available_files)
    /\ response' = NoResponse
    /\ UNCHANGED <<grid, daily, monthly, yearly, baseline, anomaly, heatwaves,
                   jobs, last, steps, cache>>

\* for filename in available_files: download_and_process_file returns None
\* (it catches its own exceptions) or the processed file; ingest_processed_data
\* returns True after the commit or False after a rollback
UnitErsstBackfill(file, outcome) ==
    /\ AtUnit("ERSST_TEMPORAL")
    /\ outcome \in {"ok", "failed"}
    /\ LET stored == outcome = "ok"
           rows == IF stored THEN ErsstMonthlyRecords(Unit[1], Unit[2], file) ELSE {}
           points == IF stored THEN GridRecords(<<Unit[1], Unit[2], 1>>, file, "ERSST")
                     ELSE {}
       IN  /\ monthly' = UpsertMonthly(monthly, rows)
           /\ grid' = UpsertGrid(grid, points)
           /\ last' = Ran("ingest_ersst", <<Unit[1], Unit[2]>>,
                          {MonthlyKey(n) : n \in rows},
                          {MonthlyKey(r) : r \in monthly}, ~stored)
    /\ request' = Counted(outcome)
    /\ steps' = steps + 1
    /\ UNCHANGED <<daily, yearly, baseline, anomaly, heatwaves, jobs, cache, response>>

\* OISSTIngester.run_historical_backfill, up to the loop; file_list is what
\* generate_oisst_urls made of the date range
StartOisstBackfill(file_list, store_grid) ==
    /\ Idle
    /\ request' = Frame(<<"OISST_TEMPORAL">>, [store_grid |-> store_grid], file_list)
    /\ response' = NoResponse
    /\ UNCHANGED <<grid, daily, monthly, yearly, baseline, anomaly, heatwaves,
                   jobs, last, steps, cache>>

\* for file_info in file_list: download_oisst_data returns None or the
\* dataset; process_oisst_dataset may raise; ingest_processed_data returns
\* True after the commit or False after a rollback
UnitOisstBackfill(file, outcome) ==
    /\ AtUnit("OISST_TEMPORAL")
    /\ outcome \in {"ok", "failed", "raised"}
    /\ LET stored == outcome = "ok"
           rows == IF stored THEN OisstDailyRecords(Unit, file) ELSE {}
           points == IF stored /\ request.args.store_grid
                     THEN GridRecords(Unit, file, "OISST") ELSE {}
       IN  /\ daily' = UpsertDaily(daily, rows)
           /\ grid' = UpsertGrid(grid, points)
           /\ last' = Ran("ingest_oisst", <<Unit>>,
                          {DailyKey(n) : n \in rows},
                          {DailyKey(r) : r \in daily}, ~stored)
    /\ request' = Counted(outcome)
    /\ steps' = steps + 1
    /\ UNCHANGED <<monthly, yearly, baseline, anomaly, heatwaves, jobs, cache, response>>

\* The final job status of a backfill; with no file at all the run records
\* "error" and returns before the loop
BackfillStatus(frame) ==
    IF frame.units = <<>> THEN "error"
    ELSE IF frame.error_count = 0 THEN "success"
    ELSE IF frame.success_count > 0 THEN "partial"
    ELSE "error"

FinishBackfill ==
    /\ request.op \in {"ERSST_TEMPORAL", "OISST_TEMPORAL"}
    /\ request.pc = "loop"
    /\ request.i > Len(request.units)
    /\ jobs' = RecordJobStatus(request.job, BackfillStatus(request))
    /\ request' = [request EXCEPT !.pc = "done"]
    /\ response' = MainReturns(0)
    /\ UNCHANGED <<grid, daily, monthly, yearly, baseline, anomaly, heatwaves,
                   last, steps, cache>>

\* The store the batch runs start from: ERSST months of December 2022 and
\* 2023 on the grid point at latitude 2.0, OISST days of December 2023
AtLatitude2(rows) == {[r EXCEPT !.lat_bin = 2] : r \in rows}

InitBatch ==
    /\ grid = {}
    /\ daily = SeedDaily
    /\ monthly = AtLatitude2(SeedMonthly)
    /\ yearly = {}
    /\ baseline = {}
    /\ anomaly = {}
    /\ heatwaves = {}
    /\ jobs = <<>>
    /\ last = [op |-> "none", args |-> <<>>, written |-> {}, updated |-> {},
               error |-> FALSE, again |-> FALSE]
    /\ steps = 0
    /\ cache = [enabled |-> FALSE, entries |-> {}]
    /\ request = NoRequest
    /\ response = NoResponse

\* Arguments of the batch runs
MonthLists == {<<11, 12>>, <<12, 13>>, <<11>>}
YearLists == {<<2022, 2023>>, <<2021>>}
PeriodLists ==
    {<<<<2022, 2023>>>>, <<<<2023, 2023>>, <<2022, 2023>>>>,
     <<<<2022>>, <<2022, 2023>>>>, <<<<2022, 2023>>, <<2022>>>>}
DatasetLists == {<<"ERSST", "OISST">>, <<"ERSST">>}
PeriodStrings == {<<2022, 2023>>, <<2022>>}
ErsstFileLists == {<<>>, <<<<2023, 11>>, <<2023, 12>>>>}
OisstFileLists == {<<<<2023, 12, 30>>, <<2023, 12, 31>>>>}

NextBatch ==
    \/ \E ds \in Datasets, months \in MonthLists :
          StartAggregateDailyToMonthly(2023, ds, months)
    \/ UnitAggregateDailyToMonthly
    \/ \E years \in YearLists, ds \in Datasets :
          StartAggregateMonthlyToYearly(years, ds)
    \/ UnitAggregateMonthlyToYearly
    \/ \E periods \in PeriodLists, dss \in DatasetLists :
          StartCalculateClimateBaselines(periods, dss)
    \/ UnitCalculateClimateBaselines
    \/ AbortCalculateClimateBaselines
    \/ \E years \in YearLists, period \in PeriodStrings :
          StartCalculateTemperatureAnomalies(years, period, <<"ERSST">>)
    \/ UnitCalculateTemperatureAnomalies
    \/ FinishProcessorLoop
    \/ \E files \in ErsstFileLists : StartErsstBackfill(files)
    \/ \E f \in [GridPoints -> RawTemps], outcome \in {"ok", "failed"} :
          UnitErsstBackfill(f, outcome)
    \/ \E files \in OisstFileLists, sg \in BOOLEAN : StartOisstBackfill(files, sg)
    \/ \E f \in [GridPoints -> RawTemps], outcome \in {"ok", "failed", "raised"} :
          UnitOisstBackfill(f, outcome)
    \/ FinishBackfill

SpecBatch == InitBatch /\ [][NextBatch]_vars

----------------------------------------------------------------------------
(* Claims about the batch loops *)

\* A run has recorded its job status and returned
Finished == IF request.op = "none" THEN FALSE ELSE request.pc = "done"

RecordedStatus == jobs[Len(jobs)].status

Outcomes == {request.outcomes[k] : k \in 1..Len(request.outcomes)}

\* C12: in every batch loop a unit that raises does not abort the run: the
\* units tried so far are always a prefix of the requested list, each once
\* and in order, and the job status is recorded only when every unit of the
\* list has been tried.
C12_AllUnitsThenStatus ==
    [][/\ request'.op # "none" =>
            request'.attempted = SubSeq(request'.units, 1, Len(request'.attempted))
       /\ Len(jobs') > Len(jobs) => request.attempted = request.units]_vars

\* C13: a finished batch run has recorded one status among success, partial
\* and error: partial when a unit raised and another succeeded, success only
\* when no unit failed, error only when no unit succeeded.
C13_StatusReflectsOutcomes ==
    Finished =>
        /\ RecordedStatus \in {"success", "partial", "error"}
        /\ {"raised", "ok"} \subseteq Outcomes => RecordedStatus = "partial"
        /\ RecordedStatus = "success" => Outcomes \subseteq {"ok"}
        /\ RecordedStatus = "error" => "ok" \notin Outcomes

\* C14: a finished batch run in which every unit of the list completed
\* without raising, and which produced no record, is not recorded as error.
C14_SparsityIsNotError ==
    (/\ Finished
     /\ request.op \in ProcessorJobs
     /\ request.attempted = request.units
     /\ Outcomes \subseteq {"ok"}
     /\ request.total_records = 0)
        => RecordedStatus # "error"

\* C15: a finished batch run returned to main without an exception, and the
\* process exit status is non-zero exactly when no unit succeeded.
C15_ExitNonZeroIffTotalFailure ==
    Finished =>
        /\ response.status = "returned"
        /\ response.exit_code # 0 <=> "ok" \notin Outcomes

----------------------------------------------------------------------------
(* ingest_processed_data statement by statement. The tables are what other  *)
(* sessions see, that is the committed rows; request holds the call in      *)
(* flight with the rows its session has executed but not yet committed.     *)

MaxIngests == 3

NothingStaged == [grid |-> {}, daily |-> {}, monthly |-> {}]

\* The records of processed_data, by the table they go to
ProcessedData(op, date, file) ==
    IF op = "ingest_ersst"
    THEN [grid |-> GridRecords(date, file, "ERSST"), daily |-> {},
          monthly |-> ErsstMonthlyRecords(date[1], date[2], file)]
    ELSE [grid |-> GridRecords(date, file, "OISST"),
          daily |-> OisstDailyRecords(date, file), monthly |-> {}]

\* The INSERT statements of one call, in order: a statement is built only
\* for a non-empty record list (if grid_records: ... if monthly_records: ...)
Statements(op, data, store_grid) ==
    IF op = "ingest_ersst"
    THEN (IF data.grid # {} THEN <<"grid">> ELSE <<>>)
         \o (IF data.monthly # {} THEN <<"monthly">> ELSE <<>>)
    ELSE (IF data.daily # {} THEN <<"daily">> ELSE <<>>)
         \o (IF store_grid /\ data.grid # {} THEN <<"grid">> ELSE <<>>)

NoIngestInFlight ==
    /\ steps < SeedSteps + MaxIngests
    /\ IF request.op = "none" THEN TRUE ELSE request.pc = "done"

\* ERSSTIngester.ingest_processed_data(processed_data) is entered
BeginIngestErsst(year, month, file) ==
    /\ NoIngestInFlight
    /\ LET data == ProcessedData("ingest_ersst", <<year, month, 1>>, file)
       IN  request' = [op |-> "ingest_ersst", date |-> <<year, month, 1>>,
                       file |-> file, store_grid |-> TRUE,
                       todo |-> Statements("ingest_ersst", data, TRUE),
                       staged |-> NothingStaged, pc |-> "try"]
    /\ response' = NoResponse
    /\ steps' = steps + 1
    /\ UNCHANGED <<grid, daily, monthly, yearly, baseline, anomaly, heatwaves,
                   jobs, last, cache>>

\* OISSTIngester.ingest_processed_data(processed_data, store_grid) is entered
BeginIngestOisst(date, file, store_grid) ==
    /\ NoIngestInFlight
    /\ LET data == ProcessedData("ingest_oisst", date, file)
       IN  request' = [op |-> "ingest_oisst", date |-> date,
                       file |-> file, store_grid |-> store_grid,
                       todo |-> Statements("ingest_oisst", data, store_grid),
                       staged |-> NothingStaged, pc |-> "try"]
    /\ response' = NoResponse
    /\ steps' = steps + 1
    /\ UNCHANGED <<grid, daily, monthly, yearly, baseline, anomaly, heatwaves,
                   jobs, last, cache>>

Ingesting == IF request.op \in {"ingest_ersst", "ingest_oisst"}
             THEN request.pc = "try" ELSE FALSE

\* Mutant of GridAfterExecute: every statement commits on its own
GridAfterExecuteAutocommit(T, rows) == UpsertGrid(T, rows)

\* The grid table other sessions see after session.execute(stmt) in a
\* session made with autocommit=False: the rows wait for the commit
GridAfterExecute(T, rows) == T

\* self.session.execute(stmt) of the next statement succeeds
ExecuteStatement ==
    /\ Ingesting
    /\ request.todo # <<>>
    /\ LET table == Head(request.todo)
           rows == ProcessedData(request.op, request.date, request.file)[table]
       IN  /\ request' = [request EXCEPT !.todo = Tail(@), !.staged[table] = rows]
           /\ grid' = IF table = "grid" THEN GridAfterExecute(grid, rows) ELSE grid
    /\ UNCHANGED <<daily, monthly, yearly, baseline, anomaly, heatwaves, jobs,
                   last, steps, cache, response>>

IngestKeys(staged) ==
    {<<"grid", GridKey(n)>> : n \in staged.grid}
        \cup {<<"daily", DailyKey(n)>> : n \in staged.daily}
        \cup {<<"monthly", MonthlyKey(n)>> : n \in staged.monthly}

StoredKeys ==
    {<<"grid", GridKey(r)>> : r \in grid}
        \cup {<<"daily", DailyKey(r)>> : r \in daily}
        \cup {<<"monthly", MonthlyKey(r)>> : r \in monthly}

\* self.session.commit() succeeds; return True
CommitIngest ==
    /\ Ingesting
    /\ request.todo = <<>>
    /\ grid' = UpsertGrid(grid, request.staged.grid)
    /\ daily' = UpsertDaily(daily, request.staged.daily)
    /\ monthly' = UpsertMonthly(monthly, request.staged.monthly)
    /\ request' = [request EXCEPT !.pc = "done"]
    /\ response' = [status |-> "returned", value |-> TRUE]
    /\ last' = Ran(request.op, <<request.date>>, IngestKeys(request.staged),
                   StoredKeys, FALSE)
    /\ UNCHANGED <<yearly, baseline, anomaly, heatwaves, jobs, steps, cache>>

\* The next execute or the commit raises: except Exception:
\* self.session.rollback(); return False
RollbackIngest ==
    /\ Ingesting
    /\ request' = [request EXCEPT !.staged = NothingStaged, !.pc = "done"]
    /\ response' = [status |-> "returned", value |-> FALSE]
    /\ last' = Ran(request.op, <<request.date>>, {}, {}, TRUE)
    /\ UNCHANGED <<grid, daily, monthly, yearly, baseline, anomaly, heatwaves,
                   jobs, steps, cache>>

NextIngest ==
    \/ \E m \in {11, 12}, f \in [GridPoints -> RawTemps] : BeginIngestErsst(2023, m, f)
    \/ \E d \in {30, 31}, f \in [GridPoints -> RawTemps], sg \in BOOLEAN :
          BeginIngestOisst(<<2023, 12, d>>, f, sg)
    \/ ExecuteStatement
    \/ CommitIngest
    \/ RollbackIngest

SpecIngest == InitSeeded /\ [][NextIngest]_vars

\* The records the call in flight was given, those it is to store
UnitRecords ==
    LET data == ProcessedData(request.op, request.date, request.file)
    IN  [data EXCEPT !.grid = IF request.store_grid THEN @ ELSE {}]

\* Rows of other units: rows whose key the call in flight does not hold
OtherUnits(T, key(_), rows) == {r \in T : \A n \in rows : key(n) # key(r)}

\* C16: each step of ingest_processed_data either changes no table that
\* other sessions see, or is the commit that returns True and makes all of
\* the unit's grid and aggregate records visible together; a call that
\* returns False has changed nothing; the rows of other units stay as they
\* were in every step.
C16_IngestIsAtomic ==
    [][Ingesting =>
        /\ \/ UNCHANGED <<grid, daily, monthly>>
           \/ /\ response'.status = "returned" /\ response'.value
              /\ grid' = UpsertGrid(grid, UnitRecords.grid)
              /\ daily' = UpsertDaily(daily, UnitRecords.daily)
              /\ monthly' = UpsertMonthly(monthly, UnitRecords.monthly)
        /\ OtherUnits(grid, GridKey, UnitRecords.grid) \subseteq grid'
        /\ OtherUnits(daily, DailyKey, UnitRecords.daily) \subseteq daily'
        /\ OtherUnits(monthly, MonthlyKey, UnitRecords.monthly) \subseteq monthly']_vars

\* C16 witness: an ERSST call for November 2023 has committed a grid record
\* and a monthly record next to the records of the earlier units.
C16_Witness ==
    /\ request.op = "ingest_ersst"
    /\ request.pc = "done"
    /\ response = [status |-> "returned", value |-> TRUE]
    /\ request.date = <<2023, 11, 1>>
    /\ request.staged.grid # {} /\ request.staged.grid \subseteq grid
    /\ request.staged.monthly # {} /\ request.staged.monthly \subseteq monthly
    /\ SeedMonthly \subseteq monthly
    /\ SeedGrid \subseteq grid

----------------------------------------------------------------------------
(* Rollup runs over several partitions of one store *)

MaxPartitionRuns == 2

PartitionYears == {2022, 2023}
PartitionMonths == {11, 12}
PartitionPeriods == {<<2022, 2023>>, <<2021, 2023>>}

\* The store after backfills: ERSST months of December 2022 and 2023, OISST
\* days of 30 November and 1 December 2023
InitPartitions ==
    /\ grid = {}
    /\ daily = UpsertDaily(OisstDailyRecords(<<2023, 11, 30>>, File(10)),
                           OisstDailyRecords(<<2023, 12, 1>>, File(12)))
    /\ monthly = SeedMonthly
    /\ yearly = {}
    /\ baseline = {}
    /\ anomaly = {}
    /\ heatwaves = {}
    /\ jobs = <<>>
    /\ last = [op |-> "none", args |-> <<>>, written |-> {}, updated |-> {},
               error |-> FALSE, again |-> FALSE]
    /\ steps = 0
    /\ cache = [enabled |-> FALSE, entries |-> {}]
    /\ request = NoRequest
    /\ response = NoResponse

NextPartitions ==
    \/ /\ steps < MaxPartitionRuns
       /\ \E y \in PartitionYears, m \in PartitionMonths, ds \in Datasets :
             AggregateDailyToMonthly(y, m, ds, 1)
    \/ /\ steps < MaxPartitionRuns
       /\ \E y \in PartitionYears, ds \in Datasets, res \in Resolutions :
             AggregateMonthlyToYearly(y, ds, res)
    \/ /\ steps < MaxPartitionRuns
       /\ \E p \in PartitionPeriods, ds \in Datasets, res \in Resolutions :
             CalculateClimateBaseline(p[1], p[2], ds, res)
    \/ /\ steps < MaxPartitionRuns
       /\ \E y \in PartitionYears, p \in PartitionPeriods, ds \in Datasets :
             CalculateTemperatureAnomalies(y, p, ds)

SpecPartitions == InitPartitions /\ [][NextPartitions]_vars

\* A run is an operation name with its argument tuple, as last records it
Run(op, args) == [op |-> op, args |-> args]

PartitionRuns ==
    {Run("aggregate_daily_to_monthly", <<y, m, ds, 1>>) :
        y \in PartitionYears, m \in PartitionMonths, ds \in Datasets}
    \cup {Run("aggregate_monthly_to_yearly", <<y, ds, res>>) :
        y \in PartitionYears, ds \in Datasets, res \in Resolutions}
    \cup {Run("calculate_climate_baseline", <<p[1], p[2], ds, res>>) :
        p \in PartitionPeriods, ds \in Datasets, res \in Resolutions}
    \cup {Run("calculate_temperature_anomalies", <<y, p, ds>>) :
        y \in PartitionYears, p \in PartitionPeriods, ds \in Datasets}

\* The partition a run works on: (dataset, year, month), (dataset, year),
\* or for a baseline (dataset, period)
PartitionOf(run) ==
    IF run.op = "aggregate_daily_to_monthly"
    THEN <<run.args[3], run.args[1], run.args[2]>>
    ELSE IF run.op = "aggregate_monthly_to_yearly" THEN <<run.args[2], run.args[1]>>
    ELSE IF run.op = "calculate_climate_baseline"
    THEN <<run.args[3], run.args[1], run.args[2]>>
    ELSE <<run.args[3], run.args[1]>>

\* The (dataset, year) of a monthly, yearly or anomaly run
YearPartition(run) ==
    IF run.op = "aggregate_daily_to_monthly" THEN <<run.args[3], run.args[1]>>
    ELSE IF run.op = "aggregate_monthly_to_yearly" THEN <<run.args[2], run.args[1]>>
    ELSE <<run.args[3], run.args[1]>>

\* Two runs of one operation on different partitions, or two runs of
\* different year-partitioned operations on different (dataset, year)
DifferentPartitions(a, b) ==
    IF a.op = b.op
    THEN PartitionOf(a) # PartitionOf(b)
    ELSE /\ a.op # "calculate_climate_baseline"
         /\ b.op # "calculate_climate_baseline"
         /\ YearPartition(a) # YearPartition(b)

\* The store the rollups read and write
Tables == [daily |-> daily, monthly |-> monthly, yearly |-> yearly,
           baseline |-> baseline, anomaly |-> anomaly]

\* The rows a run selects from the tables T; a baseline statement that the
\* NOT NULL columns refuse writes none
RunRows(run, T) ==
    IF run.op = "aggregate_daily_to_monthly"
    THEN MonthlyRollupOf(T.daily, run.args[1], run.args[2], run.args[3], run.args[4])
    ELSE IF run.op = "aggregate_monthly_to_yearly"
    THEN YearlyRollupOf(T.monthly, run.args[1], run.args[2], run.args[3])
    ELSE IF run.op = "calculate_climate_baseline"
    THEN LET rows == BaselineSelectOf(T.monthly, run.args[1], run.args[2],
                                      run.args[3], run.args[4])
         IN  IF BaselineNotNullViolation(rows) THEN {} ELSE rows
    ELSE AnomalySelectOf(T.monthly, T.baseline, run.args[1], run.args[2], run.args[3])

\* The output keys of a run, each with the table it belongs to
RunKeys(run, T) ==
    IF run.op = "aggregate_daily_to_monthly"
    THEN {<<"monthly", MonthlyKey(n)>> : n \in RunRows(run, T)}
    ELSE IF run.op = "aggregate_monthly_to_yearly"
    THEN {<<"yearly", YearlyKey(n)>> : n \in RunRows(run, T)}
    ELSE IF run.op = "calculate_climate_baseline"
    THEN {<<"baseline", BaselineKey(n)>> : n \in RunRows(run, T)}
    ELSE {<<"anomaly", AnomalyKey(n)>> : n \in RunRows(run, T)}

\* The tables T after the run: its rows upserted into the table it writes
After(run, T) ==
    LET rows == RunRows(run, T)
    IN  IF run.op = "aggregate_daily_to_monthly"
        THEN [T EXCEPT !.monthly = UpsertMonthly(@, rows)]
        ELSE IF run.op = "aggregate_monthly_to_yearly"
        THEN [T EXCEPT !.yearly = UpsertYearly(@, rows)]
        ELSE IF run.op = "calculate_climate_baseline"
        THEN [T EXCEPT !.baseline = UpsertBaseline(@, rows)]
        ELSE [T EXCEPT !.anomaly = UpsertAnomaly(@, rows)]

----------------------------------------------------------------------------
(* Query endpoints behind the cache while the pipeline writes *)

MaxCacheSteps == 4

\* December 2023 at monthly resolution, with and without a box
CacheTemperatureRequests ==
    {[start_date |-> <<2023, 12, 1>>, end_date |-> <<2023, 12, 31>>,
      resolution |-> "monthly", bbox |-> b, dataset |-> NoDataset,
      limit |-> 5000, offset |-> 0] :
        b \in {NoBBox, <<<<"num", -10>>, <<"num", -10>>, <<"num", 10>>, <<"num", 10>>>>}}

CacheAnomalyRequests ==
    {[start_date |-> <<2023, 12, 1>>, end_date |-> <<2023, 12, 31>>,
      baseline |-> <<2022, 2023>>, bbox |-> NoBBox, dataset |-> NoDataset,
      threshold |-> NULL, limit |-> 5000, offset |-> 0]}

MoreCacheSteps == steps < SeedSteps + MaxCacheSteps

\* A request reaches /temperatures or /anomalies
Query ==
    \/ \E a \in CacheTemperatureRequests : GetTemperaturesEndpoint(a)
    \/ \E a \in CacheAnomalyRequests : GetTemperatureAnomaliesEndpoint(a)

\* The API and the pipeline tasks over one store, with redis up or down
NextCache ==
    \/ /\ MoreCacheSteps
       /\ \E a \in CacheTemperatureRequests : GetTemperaturesEndpoint(a)
    \/ /\ MoreCacheSteps
       /\ \E a \in CacheAnomalyRequests : GetTemperatureAnomaliesEndpoint(a)
    \/ /\ MoreCacheSteps
       /\ \E ds \in Datasets : AggregateDailyToMonthly(2023, 12, ds, 1)
    \/ /\ MoreCacheSteps
       /\ \E ds \in Datasets : CalculateClimateBaseline(2022, 2023, ds, 1)
    \/ /\ MoreCacheSteps
       /\ \E ds \in Datasets : CalculateTemperatureAnomalies(2023, <<2022, 2023>>, ds)
    \/ CacheExpire

SpecCache == InitApi /\ [][NextCache]_vars

\* What the try block of the endpoint computes from the store
Uncached(endpoint, a) ==
    IF endpoint = "temperatures" THEN TryGetTemperatures(a)
    ELSE IF endpoint = "anomalies" THEN TryGetTemperatureAnomalies(a)
    ELSE TryGetMarineHeatwaves(a)

SameAnswer(r, q) ==
    /\ r.status_code = q.status_code
    /\ IF r.status_code = 200 THEN r.body = q.body ELSE r.detail = q.detail

\* C18: whenever an endpoint answers a request, with redis up or down, its
\* response is one the try block computes from the store as it is at that
\* moment (the store is the same before and after the request).
C18_CacheIsTransparent ==
    [][Query => \E o \in Uncached(request'.op, request'.args) :
                    SameAnswer(response', Answer(o))]_vars

----------------------------------------------------------------------------
(* detect_marine_heatwaves over the series 10, 10, 20, 21, 22, 19, 10, 10 *)

\* The values of 1..8 January 2023, index 0 of the series being 1 January
ExampleSeries == <<10, 10, 20, 21, 22, 19, 10, 10>>

\* The series, and the series with the file of one day holding fill values
ExampleFiles ==
    {ExampleSeries}
        \cup {[ExampleSeries EXCEPT ![d] = -999] : d \in 1..Len(ExampleSeries)}

\* The daily table of the series as stored
ExampleDaily == IngestedDays(ExampleSeries, Len(ExampleSeries))

\* Detection windows: from 1 or 3 January to 5, 6, 7 or 8 January
WindowStarts == {1, 3}
WindowEnds == {5, 6, 7, 8}

InitExample ==
    /\ grid = {}
    /\ daily \in {IngestedDays(f, Len(ExampleSeries)) : f \in ExampleFiles}
    /\ monthly = {}
    /\ yearly = {}
    /\ baseline = {}
    /\ anomaly = {}
    /\ heatwaves = {}
    /\ jobs = <<>>
    /\ last = [op |-> "none", args |-> <<>>, written |-> {}, updated |-> {},
               error |-> FALSE, again |-> FALSE]
    /\ steps = 0
    /\ cache = [enabled |-> FALSE, entries |-> {}]
    /\ request = NoRequest
    /\ response = NoResponse

NextExample ==
    /\ steps < MaxDetections
    /\ \E s \in WindowStarts, e \in WindowEnds, pct \in Percentiles, md \in MinDurations :
          DetectMarineHeatwaves(SeriesDate(s), SeriesDate(e), "OISST", pct, md)

SpecExample == InitExample /\ [][NextExample]_vars

\* Detection has run over the whole stored series with min_duration md
DetectedWholeSeries(md) ==
    /\ last.op = "detect_marine_heatwaves"
    /\ last.args[1] = SeriesDate(1)
    /\ last.args[2] = SeriesDate(Len(ExampleSeries))
    /\ last.args[5] = md

\* C19: after detection with min_duration 3 over the series 10, 10, 20, 21,
\* 22, 19, 10, 10 (threshold 15) the stored events are exactly one, from
\* index 2 to index 4 (3 to 5 January), of duration 3.
C19_ExampleSeriesOneEvent ==
    (daily = ExampleDaily /\ DetectedWholeSeries(3)) =>
        {<<e.start_date, e.end_date, e.duration_days>> : e \in heatwaves}
            = {<<SeriesDate(3), SeriesDate(5), 3>>}

\* Day d has no value in the series
Missing(d) ==
    \A r \in daily : r.date = SeriesDate(d) => IsNull(r.avg_sst_c)

\* Day g is inside the series and is its only missing day, and every other
\* day exceeds th
OneGap(g, th) ==
    /\ 1 < g /\ g < SeriesDays
    /\ Missing(g)
    /\ \A d \in (1..SeriesDays) \ {g} : Exceeds(d, th)

\* The days before and after the gap g, each kept when it lasts md days
RunsAround(g, md) ==
    {r \in {<<1, g - 1>>, <<g + 1, SeriesDays>>} : r[2] - r[1] + 1 >= md}

\* C20: after detection over a series whose days all exceed the threshold
\* except one missing day inside it, the stored events are the stretch
\* before the gap and the stretch after it, each only if it alone lasts
\* min_duration days, and no event spans the missing day.
C20_MissingDayBreaksRun ==
    last.op = "detect_marine_heatwaves" =>
        \A th \in Thresholds, g \in 1..SeriesDays :
            OneGap(g, th) =>
                /\ {<<e.start_date, e.end_date>> : e \in heatwaves}
                     = {<<SeriesDate(r[1]), SeriesDate(r[2])>> :
                           r \in RunsAround(g, last.args[5])}
                /\ \A e \in heatwaves :
                      ~(DateLe(e.start_date, SeriesDate(g))
                          /\ DateLe(SeriesDate(g), e.end_date))

----------------------------------------------------------------------------
(* Baselines over three years of monthly aggregates of one bin *)

MaxScenarioRuns == 2

\* The monthly table after the ERSST files of January and December of
\* 2021..2023 have been ingested, the file of year y and month m holding
\* the value f[<<y, m>>]
RECURSIVE IngestedMonths(_, _)
IngestedMonths(f, YM) ==
    IF YM = {} THEN {}
    ELSE LET ym == CHOOSE x \in YM : TRUE
         IN  UpsertMonthly(IngestedMonths(f, YM \ {ym}),
                           ErsstMonthlyRecords(ym[1], ym[2], File(f[ym])))

InitScenario ==
    /\ grid = {}
    /\ daily = {}
    /\ monthly \in {IngestedMonths(f, Years \X Months) :
                        f \in [Years \X Months -> ValidTemps]}
    /\ yearly = {}
    /\ baseline = {}
    /\ anomaly = {}
    /\ heatwaves = {}
    /\ jobs = <<>>
    /\ last = [op |-> "none", args |-> <<>>, written |-> {}, updated |-> {},
               error |-> FALSE, again |-> FALSE]
    /\ steps = 0
    /\ cache = [enabled |-> FALSE, entries |-> {}]
    /\ request = NoRequest
    /\ response = NoResponse

ScenarioPeriods == {<<2021, 2022>>, <<2020, 2023>>}

NextScenario ==
    /\ steps < MaxScenarioRuns
    /\ \E p \in ScenarioPeriods, res \in Resolutions :
          CalculateClimateBaseline(p[1], p[2], "ERSST", res)

SpecScenario == InitScenario /\ [][NextScenario]_vars

\* The monthly aggregates of calendar month m in the years of the period
InPeriod(m, start_year, end_year) ==
    {r \in monthly : r.month = m /\ r.year >= start_year /\ r.year <= end_year}

RECURSIVE SumOfMeans(_)
SumOfMeans(S) ==
    IF S = {} THEN <<0, 1>>
    ELSE LET r == CHOOSE x \in S : TRUE
             t == SumOfMeans(S \ {r})
         IN  Rat(r.avg_sst_c[1] * t[2] + t[1] * r.avg_sst_c[2], r.avg_sst_c[2] * t[2])

\* The arithmetic mean of the monthly means of the years present
MeanOfMeans(S) ==
    LET t == SumOfMeans(S) IN Rat(t[1], t[2] * Cardinality(S))

\* The baseline records of a period and calendar month that the run which
\* has just completed produced (inserted or overwrote)
BaselineRecords(m, start_year, end_year) ==
    {b \in baseline : /\ b.month = m
                      /\ b.baseline_period_start = start_year
                      /\ b.baseline_period_end = end_year
                      /\ BaselineKey(b) \in last.written \cup last.updated}

\* The run that has just completed was for the period start_year..end_year
BaselineRan(start_year, end_year) ==
    /\ last.op = "calculate_climate_baseline"
    /\ last.args[1] = start_year
    /\ last.args[2] = end_year

\* After a run for the period there is one record per calendar month, its
\* climatology the arithmetic mean of the monthly means of the years present
OnePerMonth(start_year, end_year) ==
    \A m \in Months :
        /\ Cardinality(BaselineRecords(m, start_year, end_year)) = 1
        /\ \A b \in BaselineRecords(m, start_year, end_year) :
              b.climatology_sst_c = MeanOfMeans(InPeriod(m, start_year, end_year))

\* C21 as stated: with monthly aggregates of 2021-2023 for one bin, a run
\* for 2021-2022 leaves no baseline record of that period, and a run for
\* 2020-2023 leaves one record per month holding the mean of the monthly
\* means of the years present.
C21_ShortPeriodWithheld ==
    /\ BaselineRan(2021, 2022) =>
          \A m \in Months : BaselineRecords(m, 2021, 2022) = {}
    /\ BaselineRan(2020, 2023) => OnePerMonth(2020, 2023)

\* C21 amended: a run for 2021-2022 (both years present, floor
\* int(0.7 * 2) = 1) and a run for 2020-2023 (three of four years present,
\* floor int(0.7 * 4) = 2) each leave one record per month holding the mean
\* of the monthly means of the years present in the period.
C21_BothPeriodsProduceMeans ==
    /\ BaselineRan(2021, 2022) => OnePerMonth(2021, 2022)
    /\ BaselineRan(2020, 2023) => OnePerMonth(2020, 2023)

\* C21 witness: a run for 2020-2023 has completed after one for 2021-2022,
\* both left records, and a 2020-2023 mean is a third of a sum.
C21_Witness ==
    /\ BaselineRan(2020, 2023)
    /\ last.written # {}
    /\ \E b \in baseline : b.baseline_period_start = 2021
    /\ \E b \in baseline :
          b.baseline_period_start = 2020 /\ b.climatology_sst_c[2] = 3

----------------------------------------------------------------------------
(* An ERSST backfill that stops part-way and is invoked again *)

MaxResumeUnits == 4

\* The months of the backfill range
BackfillUnits == <<<<2023, 10>>, <<2023, 11>>, <<2023, 12>>>>

\* The file the archive holds for a month; it is the same at every download
RemoteFile(u) == IF u[2] = 11 THEN File(12) ELSE File(10)

\* The whole range, and what is left of it after one or two months
ResumeRanges ==
    {SubSeq(BackfillUnits, k, Len(BackfillUnits)) : k \in 1..Len(BackfillUnits)}

InitResume ==
    /\ grid = {}
    /\ daily = {}
    /\ monthly = {}
    /\ yearly = {}
    /\ baseline = {}
    /\ anomaly = {}
    /\ heatwaves = {}
    /\ jobs = <<>>
    /\ last = [op |-> "none", args |-> <<>>, written |-> {}, updated |-> {},
               error |-> FALSE, again |-> FALSE]
    /\ steps = 0
    /\ cache = [enabled |-> FALSE, entries |-> {}]
    /\ request = NoRequest
    /\ response = NoResponse

\* The process running the backfill is stopped between two units; what the
\* units before have committed stays, and no job status is recorded
StopBackfill ==
    /\ request.op = "ERSST_TEMPORAL"
    /\ request.pc = "loop"
    /\ request' = NoRequest
    /\ UNCHANGED <<grid, daily, monthly, yearly, baseline, anomaly, heatwaves,
                   jobs, last, steps, cache, response>>

NextResume ==
    \/ /\ steps < MaxResumeUnits
       /\ \E files \in ResumeRanges : StartErsstBackfill(files)
    \/ \E outcome \in {"ok", "failed"} : UnitErsstBackfill(RemoteFile(Unit), outcome)
    \/ StopBackfill
    \/ FinishBackfill

SpecResume == InitResume /\ [][NextResume]_vars

\* The months that have monthly aggregates in the store
StoredUnits == {<<r.year, r.month>> : r \in monthly}

\* What one uninterrupted run over the months S stores
UninterruptedMonthly(S) ==
    UNION {ErsstMonthlyRecords(u[1], u[2], RemoteFile(u)) : u \in S}

UninterruptedGrid(S) ==
    UNION {GridRecords(<<u[1], u[2], 1>>, RemoteFile(u), "ERSST") : u \in S}

\* This invocation has ended and none of its units failed
FinishedClean ==
    IF request.op = "none" THEN FALSE
    ELSE request.pc = "done" /\ request.error_count = 0

\* C22: at every moment of a backfill that is stopped and invoked again
\* for the remaining months or for the whole range, the store holds exactly
\* what one uninterrupted run stores for the months committed so far, no
\* committed month is ever lost, and an invocation that ends without a
\* failed unit leaves every month of its range stored; so once the range
\* is covered the store equals that of one uninterrupted run.
C22_BackfillIsResumable ==
    [][/\ monthly' = UninterruptedMonthly(StoredUnits')
       /\ grid' = UninterruptedGrid(StoredUnits')
       /\ StoredUnits \subseteq StoredUnits'
       /\ FinishedClean' =>
             {request'.units[k] : k \in 1..Len(request'.units)}
                 \subseteq StoredUnits']_vars

\* C22 witness: after a stop, an invocation for the remaining months has
\* ended and the store is that of one uninterrupted run over the range.
C22_Witness ==
    /\ FinishedClean
    /\ Len(request.units) < Len(BackfillUnits)
    /\ jobs = <<[job |-> <<"ERSST_TEMPORAL">>, status |-> "success"]>>
    /\ monthly = UninterruptedMonthly({BackfillUnits[k] : k \in 1..Len(BackfillUnits)})
    /\ grid = UninterruptedGrid({BackfillUnits[k] : k \in 1..Len(BackfillUnits)})

----------------------------------------------------------------------------
(* Data flows downstream *)

\* C23: every run of a rollup changes at most its own output table:
\* aggregate_daily_to_monthly the monthly aggregates, aggregate_monthly_to_yearly
\* the yearly aggregates, calculate_climate_baseline the baselines and
\* calculate_temperature_anomalies the anomalies; the table a run reads and
\* every other table are the same before and after it.
C23_WritesOnlyOwnTable ==
    [][steps' # steps =>
        /\ last'.op = "aggregate_daily_to_monthly" =>
              UNCHANGED <<grid, daily, yearly, baseline, anomaly, heatwaves>>
        /\ last'.op = "aggregate_monthly_to_yearly" =>
              UNCHANGED <<grid, daily, monthly, baseline, anomaly, heatwaves>>
        /\ last'.op = "calculate_climate_baseline" =>
              UNCHANGED <<grid, daily, monthly, yearly, anomaly, heatwaves>>
        /\ last'.op = "calculate_temperature_anomalies" =>
              UNCHANGED <<grid, daily, monthly, yearly, baseline, heatwaves>>]_vars

\* C23 witness: an anomaly run has written records from monthly aggregates
\* and baselines that are still in place, next to yearly aggregates.
C23_Witness ==
    /\ last.op = "calculate_temperature_anomalies"
    /\ last.written # {}
    /\ anomaly # {}
    /\ baseline # {}
    /\ yearly # {}
    /\ SeedMonthly \subseteq monthly
    /\ daily = SeedDaily

----------------------------------------------------------------------------
(* The bin function at ingestion and in the rollup statements *)

MaxBinnings == 3

\* round(float(lat)) of a coordinate x: nearest integer, ties to the even one
RoundCoordinate(x) == RInt(SqlRound(x[1], x[2]))

\* Mutant of BinCoordinate: the index of the bin instead of its coordinate
BinIndex(x, r) == RInt(SqlRound(x[1] * r[2], x[2] * r[1]))

\* ROUND(x / :resolution) * :resolution of a coordinate x and a positive
\* resolution r, both rationals
BinCoordinate(x, r) == RMul(RInt(SqlRound(x[1] * r[2], x[2] * r[1])), r)

\* Coordinates from -2.5 to 2.5 in quarter degrees; resolutions 0.5, 1, 2, 2.5
QuarterDegrees == {Rat(n, 4) : n \in -10..10}
BinResolutions == {<<1, 2>>, <<1, 1>>, <<2, 1>>, <<5, 2>>}

InitBinning ==
    /\ grid = {}
    /\ daily = {}
    /\ monthly = {}
    /\ yearly = {}
    /\ baseline = {}
    /\ anomaly = {}
    /\ heatwaves = {}
    /\ jobs = <<>>
    /\ last = [op |-> "none", args |-> <<>>, written |-> {}, updated |-> {},
               error |-> FALSE, again |-> FALSE]
    /\ steps = 0
    /\ cache = [enabled |-> FALSE, entries |-> {}]
    /\ request = NoRequest
    /\ response = NoResponse

\* Ingestion bins the raw coordinate x of a grid point to the nearest degree
BinAtIngestion(x) ==
    /\ request' = [op |-> "round", args |-> <<x, <<1, 1>>>>, raw |-> x]
    /\ response' = [status |-> "returned", value |-> RoundCoordinate(x)]
    /\ steps' = steps + 1
    /\ UNCHANGED <<grid, daily, monthly, yearly, baseline, anomaly, heatwaves,
                   jobs, last, cache>>

\* A statement bins the coordinate x at resolution r
BinInStatement(x, r) ==
    /\ request' = [op |-> "bin", args |-> <<x, r>>, raw |-> x]
    /\ response' = [status |-> "returned", value |-> BinCoordinate(x, r)]
    /\ steps' = steps + 1
    /\ UNCHANGED <<grid, daily, monthly, yearly, baseline, anomaly, heatwaves,
                   jobs, last, cache>>

\* A rollup statement bins the stored bin coordinate again, at the
\* resolution it was binned with
RebinStored ==
    /\ request.op \in {"round", "bin", "rebin"}
    /\ request' = [op |-> "rebin", args |-> <<response.value, request.args[2]>>,
                   raw |-> request.raw]
    /\ response' = [status |-> "returned",
                    value |-> BinCoordinate(response.value, request.args[2])]
    /\ steps' = steps + 1
    /\ UNCHANGED <<grid, daily, monthly, yearly, baseline, anomaly, heatwaves,
                   jobs, last, cache>>

NextBinning ==
    \/ steps < MaxBinnings /\ \E x \in QuarterDegrees : BinAtIngestion(x)
    \/ /\ steps < MaxBinnings
       /\ \E x \in QuarterDegrees, r \in BinResolutions : BinInStatement(x, r)
    \/ steps < MaxBinnings /\ RebinStored

SpecBinning == InitBinning /\ [][NextBinning]_vars

\* C24: binning an already-binned coordinate again at the same resolution
\* returns it unchanged, whether it was binned at ingestion or by a statement.
C24_BinningIsIdempotent ==
    request.op = "rebin" => response.value = request.args[1]

\* C24 witness: a coordinate that its first binning moved has been binned
\* again at resolution 2.5 and has stayed where it was.
C24_Witness ==
    /\ request.op = "rebin"
    /\ request.args[2] = <<5, 2>>
    /\ request.raw # request.args[1]
    /\ request.args[1] # <<0, 1>>
    /\ response.value = request.args[1]

\* The coordinate x lies exactly halfway between two bins of resolution r
Halfway(x, r) ==
    LET q == Rat(2 * x[1] * r[2], x[2] * r[1])
    IN  q[2] = 1 /\ q[1] % 2 = 1

\* C25: a coordinate exactly halfway between two bins is assigned to the
\* upper bin, at ingestion and in the statements alike.
C25_TiesGoUp ==
    (request.op \in {"round", "bin"} /\ Halfway(request.args[1], request.args[2])) =>
        response.value = RAdd(request.args[1], RDivInt(request.args[2], 2))

----------------------------------------------------------------------------
(* The statistics a rollup record carries *)

\* The rows of the output table that the rollup which has just completed
\* produced, and the source rows of the group of one of them
ProducedByRollup ==
    IF last.op = "aggregate_daily_to_monthly"
    THEN {r \in monthly : MonthlyKey(r) \in last.written}
    ELSE IF last.op = "aggregate_monthly_to_yearly"
    THEN {r \in yearly : YearlyKey(r) \in last.written}
    ELSE {}

SourceGroup(r) ==
    IF last.op = "aggregate_daily_to_monthly"
    THEN {d \in DailySource(last.args[1], last.args[2], last.args[3]) :
             SpaceGroup(d, last.args[4]) = <<r.lat_bin, r.lon_bin>>}
    ELSE {m \in MonthlySource(last.args[1], last.args[2]) :
             SpaceGroup(m, last.args[3]) = <<r.lat_bin, r.lon_bin>>}

\* The population variance of the means of the rows G: the mean of the
\* squares less the square of the mean (the std columns hold the square
\* of the deviation)
PopulationVariance(G) ==
    LET n == Cardinality(G)
        mean == RDivInt(SumAvg(G), n)
    IN  RSub(RDivInt(SumSqAvg(G), n), RMul(mean, mean))

\* C26: a record produced by a daily-to-monthly or monthly-to-yearly rollup
\* carries the population deviation of the values of its group, and for a
\* group of one value a deviation of 0 (not null) and that value as mean.
C26_PopulationStd ==
    \A r \in ProducedByRollup :
        /\ ~IsNull(r.std_sst_c)
        /\ r.std_sst_c = PopulationVariance(SourceGroup(r))
        /\ Cardinality(SourceGroup(r)) = 1 =>
              /\ r.std_sst_c = RInt(0)
              /\ \A x \in SourceGroup(r) : r.avg_sst_c = x.avg_sst_c

----------------------------------------------------------------------------
(* Missing values: fill values of a file and NULL aggregates of a row *)

MaxNullSteps == 3

\* Grid points of a file, in half degrees: two points of the bin (1, 0)
\* and one point of the bin (2, 0)
BinnedPoints == {<<2, 0>>, <<2, 1>>, <<4, 0>>}

\* Daily rows without aggregates (avg_sst_c, min_sst_c, max_sst_c are
\* nullable columns): one in a bin that ingestion fills, one in a bin of
\* its own
NullDaily ==
    {[date |-> <<2023, 12, 15>>, lat_bin |-> b[1], lon_bin |-> b[2],
      avg_sst_c |-> NULL, min_sst_c |-> NULL, max_sst_c |-> NULL,
      std_sst_c |-> NULL, count |-> 3, dataset |-> "OISST"] :
        b \in {<<1, 0>>, <<5, 0>>}}

\* Resolutions of a rollup: 4 puts the bins (1, 0) and (2, 0) in one group
RollupResolutions == {1, 4}

\* Files over BinnedPoints: any raw value at the two points that share a
\* bin, 12 or the fill value at the third
PointFiles == {f \in [BinnedPoints -> RawTemps] : f[<<4, 0>>] # 10}

InitNulls ==
    /\ grid = {}
    /\ daily \in {{}, NullDaily}
    /\ monthly = {}
    /\ yearly = {}
    /\ baseline = {}
    /\ anomaly = {}
    /\ heatwaves = {}
    /\ jobs = <<>>
    /\ last = [op |-> "none", args |-> <<>>, written |-> {}, updated |-> {},
               error |-> FALSE, again |-> FALSE]
    /\ steps = 0
    /\ cache = [enabled |-> FALSE, entries |-> {}]
    /\ request = NoRequest
    /\ response = NoResponse

\* process_oisst_dataset on a file over BinnedPoints; the file is kept in
\* request for the comparison below
IngestPoints(date, file) ==
    LET rows == OisstDailyRecordsOf(BinnedPoints, date, file)
    IN  /\ daily' = UpsertDaily(daily, rows)
        /\ last' = Ran("ingest_oisst", <<date>>,
                    {DailyKey(n) : n \in rows}, {DailyKey(r) : r \in daily}, FALSE)
        /\ steps' = steps + 1
        /\ request' = [op |-> "ingest", args |-> <<date, file>>]
        /\ UNCHANGED <<grid, monthly, yearly, baseline, anomaly, heatwaves, jobs,
                       cache, response>>

NextNulls ==
    \/ /\ steps < MaxNullSteps
       /\ \E f \in PointFiles : IngestPoints(<<2023, 12, 1>>, f)
    \/ /\ steps < MaxNullSteps
       /\ \E res \in RollupResolutions : AggregateDailyToMonthly(2023, 12, "OISST", res)
    \/ /\ steps < MaxNullSteps
       /\ \E res \in RollupResolutions : AggregateMonthlyToYearly(2023, "OISST", res)

SpecNulls == InitNulls /\ [][NextNulls]_vars

\* The points of the bin b whose value in the file is a temperature, not a
\* fill value
Measured(file, b) ==
    {p \in BinnedPoints : PointBin(p) = b /\ file[p] \in ValidTemps}

RECURSIVE SumValues(_, _)
SumValues(P, file) ==
    IF P = {} THEN 0
    ELSE LET p == CHOOSE x \in P : TRUE
         IN  file[p] + SumValues(P \ {p}, file)

\* The daily rows the ingestion that has just completed wrote
Ingested == {r \in daily : DailyKey(r) \in last.written \cup last.updated}

\* The monthly rows the rollup that has just completed wrote, and the
\* daily rows with an aggregate that lie in the group of one of them
RolledUp == {r \in monthly : MonthlyKey(r) \in last.written \cup last.updated}

WithAggregate(r) ==
    {d \in daily : /\ d.date[1] = last.args[1]
                   /\ d.date[2] = last.args[2]
                   /\ d.dataset = last.args[3]
                   /\ d.avg_sst_c # NULL
                   /\ SpaceGroup(d, last.args[4]) = <<r.lat_bin, r.lon_bin>>}

\* C27: missing values are left out before aggregation and never counted
\* as zero. Ingestion writes one row for each bin with a measured point and
\* none for a bin with fill values only, and the row's mean, min, max and
\* count are those of the measured points; a rollup writes one row for each
\* group with a non-null source row and none for a group of null rows only,
\* and the row's mean, min, max and count are those of the non-null rows.
C27_MissingValuesExcluded ==
    /\ (last.op = "ingest_oisst" /\ request.op = "ingest") =>
          LET file == request.args[2]
              M(r) == Measured(file, <<r.lat_bin, r.lon_bin>>)
          IN  /\ {<<r.lat_bin, r.lon_bin>> : r \in Ingested}
                     = {PointBin(p) : p \in {q \in BinnedPoints : file[q] \in ValidTemps}}
              /\ \A r \in Ingested :
                    /\ r.count = Cardinality(M(r))
                    /\ r.avg_sst_c = Rat(SumValues(M(r), file), Cardinality(M(r)))
                    /\ \E p \in M(r) : r.min_sst_c = RInt(file[p])
                    /\ \A p \in M(r) : RLe(r.min_sst_c, RInt(file[p]))
                    /\ \E p \in M(r) : r.max_sst_c = RInt(file[p])
                    /\ \A p \in M(r) : RLe(RInt(file[p]), r.max_sst_c)
    /\ (last.op = "aggregate_daily_to_monthly" /\ ~last.error) =>
          /\ {<<r.lat_bin, r.lon_bin>> : r \in RolledUp}
                 = {SpaceGroup(d, last.args[4]) :
                       d \in {x \in daily : x.dataset = last.args[3]
                                             /\ x.avg_sst_c # NULL}}
          /\ \A r \in RolledUp :
                /\ r.count = SumCount(WithAggregate(r))
                /\ r.avg_sst_c = RDivInt(SumAvg(WithAggregate(r)),
                                         Cardinality(WithAggregate(r)))
                /\ \E d \in WithAggregate(r) : r.min_sst_c = d.min_sst_c
                /\ \A d \in WithAggregate(r) : RLe(r.min_sst_c, d.min_sst_c)
                /\ \E d \in WithAggregate(r) : r.max_sst_c = d.max_sst_c
                /\ \A d \in WithAggregate(r) : RLe(d.max_sst_c, r.max_sst_c)

\* C27 witness: a file with a temperature and a fill value in one bin and
\* a fill value alone in the other has been ingested, giving one row of
\* count 1.
C27_Witness ==
    /\ last.op = "ingest_oisst"
    /\ request.op = "ingest"
    /\ request.args[2][<<2, 0>>] = 12
    /\ request.args[2][<<2, 1>>] = -999
    /\ request.args[2][<<4, 0>>] = -999
    /\ \E r \in Ingested : r.count = 1 /\ r.avg_sst_c = RInt(12)
    /\ Cardinality(Ingested) = 1

----------------------------------------------------------------------------
(* A rollup record is a mean of means *)

\* The rows the rollup that has just completed inserted or overwrote
RollupOutput ==
    IF last.op = "aggregate_daily_to_monthly"
    THEN RolledUp
    ELSE IF last.op = "aggregate_monthly_to_yearly"
    THEN {r \in yearly : YearlyKey(r) \in last.written \cup last.updated}
    ELSE {}

\* C28: the record a daily-to-monthly or monthly-to-yearly rollup writes
\* has as mean the unweighted mean of the means of the source records of
\* its group, as min the least of their mins, as max the greatest of their
\* maxes and as count the sum of their counts.
C28_MeanOfMeans ==
    \A r \in RollupOutput :
        LET G == SourceGroup(r)
        IN  /\ G # {}
            /\ RMul(r.avg_sst_c, RInt(Cardinality(G))) = SumAvg(G)
            /\ \E x \in G : r.min_sst_c = x.min_sst_c
            /\ \A x \in G : RLe(r.min_sst_c, x.min_sst_c)
            /\ \E x \in G : r.max_sst_c = x.max_sst_c
            /\ \A x \in G : RLe(x.max_sst_c, r.max_sst_c)
            /\ r.count = SumCount(G)

\* C28 witness: a yearly record has been rolled up from two monthly
\* records with different means and different counts, so that the mean of
\* the means is not the mean of the observations.
C28_Witness ==
    /\ last.op = "aggregate_monthly_to_yearly"
    /\ \E r \in RollupOutput :
          /\ \E a, b \in SourceGroup(r) :
                a.count # b.count /\ a.avg_sst_c # b.avg_sst_c
          /\ r.avg_sst_c # SqlAvgWeighted(SourceGroup(r))

----------------------------------------------------------------------------
(* Data availability: TemporalDataManager.get_data_availability *)

MaxAvailabilitySteps == 3

AvailabilityResolutions == {"daily", "monthly", "yearly"}

\* table and date_col of get_data_availability: the rows of the dataset in
\* the table of the resolution, each with its date
AvailabilityDates(T, dataset, resolution) ==
    IF resolution = "monthly"
    THEN {<<r.year, r.month, 1>> : r \in {x \in T.monthly : x.dataset = dataset}}
    ELSE IF resolution = "yearly"
    THEN {<<r.year, 1, 1>> : r \in {x \in T.yearly : x.dataset = dataset}}
    ELSE {r.date : r \in {x \in T.daily : x.dataset = dataset}}

AvailabilityRows(T, dataset, resolution) ==
    IF resolution = "monthly" THEN {x \in T.monthly : x.dataset = dataset}
    ELSE IF resolution = "yearly" THEN {x \in T.yearly : x.dataset = dataset}
    ELSE {x \in T.daily : x.dataset = dataset}

\* The body of get_data_availability: min and max date and the count of
\* the rows of the dataset; None (the empty tuple) without rows. The
\* spatial bounds of the result are left out.
AvailabilityQuery(T, dataset, resolution) ==
    LET D == AvailabilityDates(T, dataset, resolution)
        n == Cardinality(AvailabilityRows(T, dataset, resolution))
    IN  IF n > 0
        THEN [dataset |-> dataset, resolution |-> resolution,
              start_date |-> CHOOSE d \in D : \A e \in D : DateLe(d, e),
              end_date |-> CHOOSE d \in D : \A e \in D : DateLe(e, d),
              total_records |-> n]
        ELSE [dataset |-> dataset, resolution |-> resolution,
              start_date |-> <<>>, end_date |-> <<>>, total_records |-> 0]

\* @lru_cache(maxsize=128) def get_data_availability(self, dataset,
\* resolution): the result of the first call with given arguments is kept
\* (in cache.entries) and returned by every later call with them
GetDataAvailability(dataset, resolution) ==
    LET key == <<dataset, resolution>>
        hit == {e \in cache.entries : e.key = key}
    IN  /\ IF hit # {}
           THEN /\ response' = (CHOOSE e \in hit : TRUE).value
                /\ cache' = cache
           ELSE /\ response' = AvailabilityQuery(Tables, dataset, resolution)
                /\ cache' = [cache EXCEPT !.entries =
                                @ \cup {[key |-> key, value |-> response']}]
        /\ request' = [op |-> "get_data_availability", args |-> key]
        /\ last' = Ran("get_data_availability", key, {}, {}, FALSE)
        /\ steps' = steps + 1
        /\ UNCHANGED <<grid, daily, monthly, yearly, baseline, anomaly, heatwaves,
                       jobs>>

MoreAvailabilitySteps == steps < MaxAvailabilitySteps

NextAvailability ==
    \/ /\ MoreAvailabilitySteps
       /\ \E ds \in Datasets, resolution \in AvailabilityResolutions :
             GetDataAvailability(ds, resolution)
    \/ /\ MoreAvailabilitySteps
       /\ \E d \in Days, f \in [GridPoints -> RawTemps] :
             IngestOisst(<<2023, 12, d>>, f, FALSE)
    \/ /\ MoreAvailabilitySteps
       /\ \E y \in Years, f \in [GridPoints -> RawTemps] : IngestErsst(y, 12, f)
    \/ /\ MoreAvailabilitySteps
       /\ \E ds \in Datasets : AggregateDailyToMonthly(2023, 12, ds, 1)
    \/ /\ MoreAvailabilitySteps
       /\ \E y \in Years, ds \in Datasets : AggregateMonthlyToYearly(y, ds, 1)

SpecAvailability == Init /\ [][NextAvailability]_vars

\* C29: what get_data_availability(dataset, resolution) returns is the
\* count and the least and greatest date of the rows stored for the dataset
\* and resolution at the time of the call, also when the same arguments
\* were queried before rows were written.
C29_AvailabilityReflectsStore ==
    last.op = "get_data_availability" =>
        LET now == AvailabilityQuery(Tables, last.args[1], last.args[2])
        IN  /\ response.total_records = now.total_records
            /\ response.start_date = now.start_date
            /\ response.end_date = now.end_date

----------------------------------------------------------------------------
(* A refused statement and the units after it *)

\* C30: in a per-unit loop of TemporalProcessor a storage error in one unit
\* does not make later units fail: a unit of calculate_climate_baselines
\* ends in an error only if the database refuses its own statement.
C30_LaterUnitsUnaffected ==
    (/\ request.op = "CALCULATE_BASELINES"
     /\ request.attempted # <<>>
     /\ last.op = "calculate_climate_baseline"
     /\ last.error) =>
        BaselineNotNullViolation(
            BaselineSelect(last.args[1], last.args[2], last.args[3], last.args[4]))

====
